---- MODULE Spec2Model ----
(***************************************************************************)
(* Lead Engagement Decision Engine (bright_smile_ai).                      *)
(*                                                                         *)
(* The store (leads, messages, audit events), the instant-reply workflow   *)
(* of EngagementEngine, the risk pass of RiskAnalyzer and the lead API     *)
(* are modelled as state machines over one set of variables.  Each         *)
(* specification below schedules one component against the store:         *)
(*   SpecScore  the pure scoring functions of the risk scorer              *)
(*   SpecReply  EngagementEngine.invoke_new_message, one call at a time    *)
(*   Spec       RiskAnalyzer.analyze_all_active_leads interleaved with the *)
(*              lead API at the points where the pass awaits the model     *)
(*   SpecPass   the risk pass alone, run after run, the clock moving       *)
(*              between runs                                               *)
(*   SpecCampaign  EngagementEngine.run_proactive_outreach_campaign        *)
(*   SpecStrategy  the outreach strategist's decision as a pure function   *)
(*   SpecDecision  the strategist's and the scanner's decision steps on    *)
(*              every shape of the model's answer                          *)
(*   SpecScan   RiskAnalyzer.scan_all_leads_for_opportunities              *)
(*   SpecExplainer  the financial explainers of AssetGenerator             *)
(*   SpecRuns   the starts of the batch jobs, by scheduler and by request  *)
(*   SpecJobs   a risk pass and an opportunity scan on one event loop      *)
(*   SpecPassLive  the risk pass under the scheduling of the event loop    *)
(*   SpecBatches  one run of a batch, every model call returning or failing *)
(*   SpecGap    the response gap of assess_lead_risk on elapsed minutes     *)
(*   SpecFrame  the risk pass over leads of every status                    *)
(*   SpecDemotion  periodic risk passes over silent AT_RISK leads           *)
(*   SpecCampaigns  the outreach campaign called again after it returned    *)
(*   SpecAccess  requests for one financial explainer in flight together    *)
(* A definition whose name ends in a variant suffix (_MediumOff,           *)
(* _WithComplaint, ...) is a deliberately wrong version of the definition  *)
(* that follows it; it is used to test that a property depends on the code.*)
(* Time is counted in whole hours.  Sentiment is a fixed-point number in   *)
(* units of 1/SentScale, so that the weighted average is exact.  Money is  *)
(* counted in cents.                                                       *)
(***************************************************************************)
EXTENDS Integers, Sequences, FiniteSets, Bags, TLC

VARIABLES
    now,        \* the clock, in hours
    leads,      \* leads table: id -> row
    messages,   \* messages table: lead id -> rows in created_at order
    events,     \* system_events table, a bag of rows
    explainers, \* financial_explainers table, rows in creation order
    reply,      \* the invoke_new_message call in flight
    pass,       \* the analyze_all_active_leads run in flight
    probe,      \* inputs and results of the pure functions; the accesses in flight
    campaign,   \* the run_proactive_outreach_campaign run in flight
    scan,       \* the scan_all_leads_for_opportunities run in flight
    runs        \* the runs of the batch jobs in flight, by job and by starter

vars == <<now, leads, messages, events, explainers, reply, pass, probe, campaign, scan, runs>>

----------------------------------------------------------------------------
(* Bounds of the model *)

MaxHistory == 3     \* longest conversation drawn for the scoring functions
MaxLeads == 2       \* lead ids 1..MaxLeads
ReplyLeads == 1     \* leads created under SpecReply
MaxMsgs == 2        \* message rows per lead
MaxEvents == 4      \* rows of system_events
MaxPasses == 1      \* runs of analyze_all_active_leads
MaxRequests == 1    \* logged requests handled while a pass runs
MaxTicks == 2       \* advances of the clock
TickHours == 170    \* hours per advance of the clock
MaxScans == 1       \* runs of scan_all_leads_for_opportunities
MaxTriggers == 3    \* requests to one trigger endpoint in flight together
MaxExplainers == 2  \* rows of financial_explainers
MaxCampaigns == 2   \* runs of run_proactive_outreach_campaign
MaxAccesses == 2    \* requests for financial explainers in flight together

(* Program constants *)

SampleLimit == 10           \* assess_lead_risk: .limit(10)
GapHighHours == 72          \* determine_lead_risk_level: > 72
GapMediumHours == 24        \* determine_lead_risk_level: > 24
LowEngagementCount == 3     \* determine_lead_risk_level: message_count < 3
HighScore == 3              \* risk_factors >= 3
MediumScore == 2            \* risk_factors >= 2

----------------------------------------------------------------------------
(* Fixed-point sentiment.  analyze_sentiment yields a compound score in    *)
(* [-1, 1]; the model draws it in hundredths and stores it in units of     *)
(* 1/SentScale, where SentScale is 100 times the least common multiple of  *)
(* the weight sums 1, 3, 6, ..., 55 of samples of 1..SampleLimit messages. *)

RECURSIVE Gcd(_, _)
Gcd(a, b) == IF b = 0 THEN a ELSE Gcd(b, a % b)

Lcm(a, b) == (a * b) \div Gcd(a, b)

RECURSIVE TriLcm(_)
TriLcm(n) == IF n <= 1 THEN 1 ELSE Lcm(TriLcm(n - 1), (n * (n + 1)) \div 2)

SentUnit == TriLcm(SampleLimit)
SentScale == 100 * SentUnit

Hundredths(h) == h * SentUnit

\* the thresholds -0.3 and 0 of determine_lead_risk_level
SentimentHighThreshold == Hundredths(-30)
SentimentMediumThreshold == Hundredths(0)

----------------------------------------------------------------------------
(* Sequences *)

RECURSIVE Reverse(_)
Reverse(s) == IF s = <<>> THEN <<>> ELSE Reverse(Tail(s)) \o <<Head(s)>>

Take(s, n) == IF Len(s) <= n THEN s ELSE SubSeq(s, 1, n)

RECURSIVE SumSeq(_)
SumSeq(s) == IF s = <<>> THEN 0 ELSE Head(s) + SumSeq(Tail(s))

----------------------------------------------------------------------------
(* db/models.py: the tables *)

LeadStatus == {"new", "active", "at_risk", "cold", "contacted",
               "human_handoff", "converted", "do_not_contact"}
LeadRiskLevel == {"low", "medium", "high"}
SenderType == {"lead", "ai", "human"}

LeadIds == 1..MaxLeads
NoTime == 0 - 1                 \* a NULL timestamp
NoLead == 0                     \* a NULL lead_id
MsgSentiments == {-50, 40}      \* analyze_sentiment of a message, in hundredths
AiSentiments == {40}            \* analyze_sentiment of a message the model wrote

\* Lead(...) with the column defaults; created_at is the time of the insert
NewLead ==
    [status |-> "new", risk_level |-> "low", sentiment_score |-> 0,
     reason_for_cold |-> "", do_not_contact |-> FALSE, last_contact_at |-> NoTime,
     created_at |-> 0]

\* Message(lead_id, sender, content, intent_classification); created_at = now()
MessageRow(sender, intent, sentiment) ==
    [sender |-> sender, intent_classification |-> intent,
     sentiment |-> sentiment, created_at |-> now]

\* SystemEvent(event_type, lead_id, severity)
EventRow(event_type, lead_id, severity) ==
    [event_type |-> event_type, lead_id |-> lead_id, severity |-> severity]

Exists(l) == l \in DOMAIN leads

----------------------------------------------------------------------------
(* services/system_logger.py *)

\* log_event: db.add(event); db.commit()
log_event(ev, event_type, lead_id, severity) ==
    ev (+) SetToBag({EventRow(event_type, lead_id, severity)})

log_lead_status_change(ev, lead_id) ==
    log_event(ev, "lead_status_change", lead_id, "info")

log_ai_interaction(ev, lead_id, interaction_type) ==
    log_event(ev, "ai_" \o interaction_type, lead_id, "info")

log_error(ev, error_type, lead_id) ==
    log_event(ev, "error_" \o error_type, lead_id, "error")

log_outreach_campaign(ev, campaign_type) ==
    log_event(ev, "outreach_campaign_" \o campaign_type, NoLead, "info")

\* system_events.lead_id is a foreign key to leads.id: the insert of an
\* event for a lead id that is in no row of leads is refused at the commit
EventInsertRefused(lead_id) == lead_id # NoLead /\ ~Exists(lead_id)

EventsRoom(n) == BagCardinality(events) + n <= MaxEvents

----------------------------------------------------------------------------
(* api/endpoints/leads.py and the clock *)

Tick ==
    /\ now + TickHours <= MaxTicks * TickHours
    /\ now' = now + TickHours

\* POST /leads: the next id of the sequence
create_lead(l) ==
    /\ l \in LeadIds \ DOMAIN leads
    /\ \A k \in LeadIds : k < l => Exists(k)
    /\ EventsRoom(1)
    /\ leads' = leads @@ (l :> [NewLead EXCEPT !.created_at = now])
    /\ messages' = messages @@ (l :> <<>>)
    /\ events' = log_event(events, "lead_created", l, "info")

\* LeadUpdate: model_dump(exclude_unset=True) keeps the fields in upd.set
LeadUpdates ==
    [set : {{"status"}}, status : LeadStatus, risk_level : {"low"}, do_not_contact : {FALSE}]
    \cup [set : {{"risk_level"}}, status : {"new"}, risk_level : {"medium"}, do_not_contact : {FALSE}]
    \cup [set : {{"do_not_contact"}}, status : {"new"}, risk_level : {"low"}, do_not_contact : BOOLEAN]

\* PUT /leads/{lead_id}
update_lead(l, upd) ==
    /\ Exists(l)
    /\ EventsRoom(1)
    /\ leads' = [leads EXCEPT ![l] =
            [@ EXCEPT !.status = IF "status" \in upd.set THEN upd.status ELSE @,
                      !.risk_level = IF "risk_level" \in upd.set THEN upd.risk_level ELSE @,
                      !.do_not_contact =
                          IF "do_not_contact" \in upd.set THEN upd.do_not_contact ELSE @]]
    /\ events' = IF "status" \in upd.set /\ leads[l].status # upd.status
                 THEN log_lead_status_change(events, l)
                 ELSE events

\* PATCH /leads/{lead_id}/status
update_lead_status(l, status, reason) ==
    /\ Exists(l)
    /\ EventsRoom(1)
    /\ leads' = [leads EXCEPT ![l] =
            [@ EXCEPT !.status = status,
                      !.reason_for_cold =
                          IF reason # "" /\ status = "cold" THEN reason ELSE @]]
    /\ events' = log_lead_status_change(events, l)

\* DELETE /leads/{lead_id}: the soft delete
delete_lead(l) ==
    /\ Exists(l)
    /\ EventsRoom(1)
    /\ leads' = [leads EXCEPT ![l] =
            [@ EXCEPT !.do_not_contact = TRUE, !.status = "do_not_contact"]]
    /\ events' = log_event(events, "lead_deleted", l, "warning")

----------------------------------------------------------------------------
(* core/utils.py: determine_lead_risk_level *)

RiskFactors(sentiment_score, response_gap_hours, message_count) ==
    (IF sentiment_score < SentimentHighThreshold THEN 2
     ELSE IF sentiment_score < SentimentMediumThreshold THEN 1 ELSE 0)
  + (IF response_gap_hours > GapHighHours THEN 2
     ELSE IF response_gap_hours > GapMediumHours THEN 1 ELSE 0)
  + (IF message_count < LowEngagementCount THEN 1 ELSE 0)

determine_lead_risk_level_MediumOff(sentiment_score, response_gap_hours, message_count) ==
    LET risk_factors == RiskFactors(sentiment_score, response_gap_hours, message_count)
    IN  IF risk_factors >= HighScore THEN "high"
        ELSE IF risk_factors > MediumScore THEN "medium"
        ELSE "low"

determine_lead_risk_level(sentiment_score, response_gap_hours, message_count) ==
    LET risk_factors == RiskFactors(sentiment_score, response_gap_hours, message_count)
    IN  IF risk_factors >= HighScore THEN "high"
        ELSE IF risk_factors >= MediumScore THEN "medium"
        ELSE "low"

----------------------------------------------------------------------------
(* services/risk_analyzer.py: assess_lead_risk, the sentiment sample.      *)
(* A conversation is the sequence of a lead's message rows in created_at   *)
(* order (oldest first), as the table holds them.                          *)

\* .order_by(Message.created_at.desc()).limit(10): newest first
RecentMessages(history, limit) == Take(Reverse(history), limit)

\* sentiment_scores: one score per sampled message, in the sample's order,
\* in hundredths
SentimentScores(recent_messages) ==
    [i \in 1..Len(recent_messages) |-> recent_messages[i].sentiment]

\* weights = [i + 1 for i in range(len(sentiment_scores))]
SampleWeights(sentiment_scores) == [i \in 1..Len(sentiment_scores) |-> i]

\* sum(s * w for s, w in zip(sentiment_scores, weights)) / sum(weights),
\* in units of 1/SentScale (the division is exact)
WeightedSentiment(sentiment_scores) ==
    IF sentiment_scores = <<>> THEN 0
    ELSE LET weights == SampleWeights(sentiment_scores)
             products == [i \in 1..Len(weights) |-> sentiment_scores[i] * weights[i]]
         IN  (SumSeq(products) * SentUnit) \div SumSeq(weights)

----------------------------------------------------------------------------
(* services/risk_analyzer.py: analyze_all_active_leads.                    *)
(* The pass works on the rows of its own database session: an attribute it *)
(* has assigned is pending (pass.dirty) until the next commit of that      *)
(* session writes it to the table; every other attribute is read from the  *)
(* table, because each commit expires the rows the session holds.  The     *)
(* pass runs without interruption from one await of the language model to  *)
(* the next; pass.pc names the step it is at.                              *)

NoStats ==
    [total_analyzed |-> 0, newly_at_risk |-> 0, interventions_triggered |-> 0,
     moved_to_cold |-> 0, aggressive_offers_sent |-> 0]

NoDirty ==
    [status |-> {}, risk_level |-> {}, sentiment_score |-> {},
     last_contact_at |-> {}, reason_for_cold |-> {}]

NoAssessment == [risk_level |-> "low", sentiment_score |-> 0]

\* what the pass saw of a lead when its turn began, and the statistics then
\* (kept for the contracts)
NoPassEntry ==
    [status |-> "", risk_level |-> "", last_contact_at |-> NoTime, stats |-> NoStats]

\* pass.raised: the leads whose turn has raised (kept for the contracts)
IdlePass ==
    [pc |-> "idle", active_leads |-> <<>>, lead |-> NoLead, dirty |-> NoDirty,
     risk_assessment |-> NoAssessment, stats |-> NoStats,
     entry |-> NoPassEntry, raised |-> {}]

Pending(attribute, stored) == IF attribute = {} THEN stored ELSE CHOOSE v \in attribute : TRUE

\* the row as the session sees it: the table's row under the pending writes
Overlay(row, dirty) ==
    [status |-> Pending(dirty.status, row.status),
     risk_level |-> Pending(dirty.risk_level, row.risk_level),
     sentiment_score |-> Pending(dirty.sentiment_score, row.sentiment_score),
     reason_for_cold |-> Pending(dirty.reason_for_cold, row.reason_for_cold),
     do_not_contact |-> row.do_not_contact,
     last_contact_at |-> Pending(dirty.last_contact_at, row.last_contact_at),
     created_at |-> row.created_at]

\* db.commit(): the pending writes of the session reach the table
Flush(p) ==
    IF p.lead = NoLead THEN leads
    ELSE [leads EXCEPT ![p.lead] = Overlay(@, p.dirty)]

\* the leads in ascending id order that a query selects
RECURSIVE Ascending(_)
Ascending(ids) ==
    IF ids = {} THEN <<>>
    ELSE LET least == CHOOSE l \in ids : \A k \in ids : l <= k
         IN  <<least>> \o Ascending(ids \ {least})

\* assess_lead_risk: the weighted sentiment of the newest messages, the hours
\* since the newest message, the number of messages
assess_lead_risk(l) ==
    LET recent_messages == RecentMessages(messages[l], SampleLimit)
    IN  IF recent_messages = <<>> THEN NoAssessment
        ELSE LET weighted_sentiment == WeightedSentiment(SentimentScores(recent_messages))
                 hours_since_last_contact == now - recent_messages[1].created_at
                 total_messages == Len(messages[l])
             IN  [risk_level |-> determine_lead_risk_level(weighted_sentiment,
                                        hours_since_last_contact, total_messages),
                  sentiment_score |-> weighted_sentiment]

\* severity="warning" if new_risk == LeadRiskLevel.HIGH else "info"
RiskChangeSeverity_AlwaysInfo(new_risk) == "info"

RiskChangeSeverity(new_risk) == IF new_risk = "high" THEN "warning" ELSE "info"

\* _should_move_to_cold on the row as the session sees it
ColdAfterHighHours == 168
ColdAfterHours == 336

should_move_to_cold(row) ==
    /\ row.status = "at_risk"
    /\ \/ row.last_contact_at = NoTime
       \/ row.risk_level = "high" /\ now - row.last_contact_at > ColdAfterHighHours
       \/ now - row.last_contact_at > ColdAfterHours

\* the selection of analyze_all_active_leads and the statistics at zero
StartPass_IgnoresDoNotContact ==
    /\ pass.pc = "idle"
    /\ LET active_leads ==
               Ascending({l \in DOMAIN leads : leads[l].status \in {"active", "at_risk"}})
       IN  pass' = [IdlePass EXCEPT !.pc = "next", !.active_leads = active_leads,
                                    !.stats = [NoStats EXCEPT !.total_analyzed = Len(active_leads)]]
    /\ UNCHANGED <<now, leads, messages, events, explainers, reply, probe, campaign, scan, runs>>

StartPass ==
    /\ pass.pc = "idle"
    /\ LET active_leads ==
               Ascending({l \in DOMAIN leads :
                             /\ leads[l].status \in {"active", "at_risk"}
                             /\ ~leads[l].do_not_contact})
       IN  pass' = [IdlePass EXCEPT !.pc = "next", !.active_leads = active_leads,
                                    !.stats = [NoStats EXCEPT !.total_analyzed = Len(active_leads)]]
    /\ UNCHANGED <<now, leads, messages, events, explainers, reply, probe, campaign, scan, runs>>

\* for lead in active_leads: the next lead, or the end of the loop
NextLead ==
    /\ pass.pc = "next"
    /\ pass' = IF pass.active_leads = <<>>
               THEN [pass EXCEPT !.pc = "finish"]
               ELSE LET l == Head(pass.active_leads)
                    IN  [pass EXCEPT !.pc = "assess", !.lead = l,
                                     !.active_leads = Tail(pass.active_leads),
                                     !.entry = [status |-> leads[l].status,
                                                risk_level |-> leads[l].risk_level,
                                                last_contact_at |-> leads[l].last_contact_at,
                                                stats |-> pass.stats]]
    /\ UNCHANGED <<now, leads, messages, events, explainers, reply, probe, campaign, scan, runs>>

\* the step of a turn after the assessment and the risk update: the
\* retention offer of a high-risk lead, the intervention of an at-risk lead
\* of medium risk, or the cold check
Branch_NoMediumIntervention(row) ==
    IF row.risk_level = "high" THEN "retention" ELSE "cold"

Branch(row) ==
    IF row.risk_level = "high" THEN "retention"
    ELSE IF row.status = "at_risk" /\ row.risk_level = "medium" THEN "intervention"
    ELSE "cold"

\* a lead's turn up to its first model call: assess_lead_risk, the update of
\* a changed risk level with its risk_level_change event (log_event commits),
\* AT_RISK for a high-risk lead
AssessLead ==
    /\ pass.pc = "assess"
    /\ LET l == pass.lead
           risk_assessment == assess_lead_risk(l)
           new_risk == risk_assessment.risk_level
           changed == new_risk # leads[l].risk_level
           updated == IF changed
                      THEN [leads[l] EXCEPT !.risk_level = new_risk,
                                            !.sentiment_score = risk_assessment.sentiment_score]
                      ELSE leads[l]
           to_at_risk == updated.risk_level = "high" /\ updated.status # "at_risk"
           dirty == IF to_at_risk THEN [NoDirty EXCEPT !.status = {"at_risk"}] ELSE NoDirty
       IN  /\ leads' = [leads EXCEPT ![l] = updated]
           /\ events' = IF changed
                        THEN log_event(events, "risk_level_change", l, RiskChangeSeverity(new_risk))
                        ELSE events
           /\ pass' = [pass EXCEPT !.pc = Branch(Overlay(updated, dirty)),
                                   !.dirty = dirty,
                                   !.risk_assessment = risk_assessment,
                                   !.stats.newly_at_risk =
                                       IF changed /\ new_risk = "high" THEN @ + 1 ELSE @]
    /\ UNCHANGED <<now, messages, explainers, reply, probe, campaign, scan, runs>>

\* _send_aggressive_retention_offer from the model's answer on: the message,
\* last_contact_at and the aggressive_retention_offer event (log_event
\* commits); on a failed call the error event (log_error commits); then
\* _trigger_predictive_intervention up to its model call
RetentionOffer(answered, sentiment) ==
    /\ pass.pc = "retention"
    /\ LET l == pass.lead
           dirty == IF answered THEN [pass.dirty EXCEPT !.last_contact_at = {now}]
                    ELSE pass.dirty
       IN  /\ messages' = IF answered
                          THEN [messages EXCEPT ![l] =
                                   Append(@, MessageRow("ai", "aggressive_retention", sentiment))]
                          ELSE messages
           /\ leads' = [leads EXCEPT ![l] = Overlay(@, dirty)]
           /\ events' = IF answered
                        THEN log_event(events, "aggressive_retention_offer", l, "warning")
                        ELSE log_error(events, "aggressive_retention", l)
           /\ pass' = [pass EXCEPT !.pc = "intervention", !.dirty = NoDirty,
                                   !.stats.aggressive_offers_sent =
                                       IF answered THEN @ + 1 ELSE @]
    /\ UNCHANGED <<now, explainers, reply, probe, campaign, scan, runs>>

\* send_predictive_intervention from the model's answer on: the message,
\* last_contact_at, the commit, then the predictive_intervention_sent event;
\* on a failed call the error event
PredictiveIntervention(answered, sentiment) ==
    /\ pass.pc = "intervention"
    /\ LET l == pass.lead
           dirty == IF answered THEN [pass.dirty EXCEPT !.last_contact_at = {now}]
                    ELSE pass.dirty
       IN  /\ messages' = IF answered
                          THEN [messages EXCEPT ![l] =
                                   Append(@, MessageRow("ai", "predictive_intervention", sentiment))]
                          ELSE messages
           /\ leads' = [leads EXCEPT ![l] = Overlay(@, dirty)]
           /\ events' = IF answered
                        THEN log_event(events, "predictive_intervention_sent", l, "info")
                        ELSE log_error(events, "predictive_intervention", l)
           /\ pass' = [pass EXCEPT !.pc = "cold", !.dirty = NoDirty,
                                   !.stats.interventions_triggered =
                                       IF answered THEN @ + 1 ELSE @]
    /\ UNCHANGED <<now, explainers, reply, probe, campaign, scan, runs>>

\* the end of a turn: _should_move_to_cold, COLD with its reason and its
\* lead_status_change event (log_lead_status_change commits)
ColdCheck ==
    /\ pass.pc = "cold"
    /\ LET l == pass.lead
           row == Overlay(leads[l], pass.dirty)
       IN  IF should_move_to_cold(row)
           THEN /\ leads' = [leads EXCEPT ![l] =
                        [row EXCEPT !.status = "cold",
                                    !.reason_for_cold =
                                        "Automated: No response after risk intervention"]]
                /\ events' = log_lead_status_change(events, l)
                /\ pass' = [pass EXCEPT !.pc = "next", !.dirty = NoDirty,
                                        !.stats.moved_to_cold = @ + 1]
           ELSE /\ pass' = [pass EXCEPT !.pc = "next"]
                /\ UNCHANGED <<leads, events>>
    /\ UNCHANGED <<now, messages, explainers, reply, probe, campaign, scan, runs>>

\* a statement of the turn raises, in assess_lead_risk or in
\* _should_move_to_cold: the except branch of the loop logs the error with
\* the lead's id (log_error commits) and the loop goes on
TurnRaises_EndsLoop ==
    /\ pass.pc \in {"assess", "cold"}
    /\ leads' = Flush(pass)
    /\ events' = log_error(events, "risk_analysis", pass.lead)
    /\ pass' = [pass EXCEPT !.pc = "finish", !.dirty = NoDirty,
                            !.raised = @ \cup {pass.lead}]
    /\ UNCHANGED <<now, messages, explainers, reply, probe, campaign, scan, runs>>

TurnRaises ==
    /\ pass.pc \in {"assess", "cold"}
    /\ leads' = Flush(pass)
    /\ events' = log_error(events, "risk_analysis", pass.lead)
    /\ pass' = [pass EXCEPT !.pc = "next", !.dirty = NoDirty,
                            !.raised = @ \cup {pass.lead}]
    /\ UNCHANGED <<now, messages, explainers, reply, probe, campaign, scan, runs>>

\* after the loop: db.commit(), log_outreach_campaign, return stats
FinishPass ==
    /\ pass.pc = "finish"
    /\ leads' = Flush(pass)
    /\ events' = log_outreach_campaign(events, "risk_analysis")
    /\ pass' = [IdlePass EXCEPT !.stats = pass.stats, !.raised = pass.raised]
    /\ UNCHANGED <<now, messages, explainers, reply, probe, campaign, scan, runs>>

----------------------------------------------------------------------------
(* services/engagement_engine.py: the instant-reply workflow.              *)
(* A call runs without interruption from one await of the language model   *)
(* to the next; each action below is one such stretch.  reply.pc names the *)
(* node whose model call is awaited.                                       *)

\* The text of the model's answer to the classification prompt: the label it
\* spells, whether it is spelled in upper case and whether it is surrounded
\* by white space.
IntentLabels == {"price_inquiry", "booking_request", "human_handoff",
                 "general_question", "complaint_concern", "unsure"}
LabelTexts == [label : IntentLabels, upper : BOOLEAN, padded : BOOLEAN]
Text(label) == [label |-> label, upper |-> FALSE, padded |-> FALSE]
NoText == Text("")

\* response.content.strip().lower()
StripLower(text) == [text EXCEPT !.upper = FALSE, !.padded = FALSE]

valid_intents_WithComplaint ==
    {Text("price_inquiry"), Text("booking_request"), Text("human_handoff"),
     Text("general_question"), Text("complaint_concern")}

valid_intents ==
    {Text("price_inquiry"), Text("booking_request"), Text("human_handoff"),
     Text("general_question")}

\* intent = response.content.strip().lower(); the fallback to general_question
ValidatedIntent(content) ==
    LET intent == StripLower(content)
    IN  IF intent \notin valid_intents THEN "general_question" ELSE intent.label

\* add_conditional_edges("classify_intent", _route_by_intent, {...})
RouteTable_HandoffAsGeneral ==
    [price_inquiry |-> "handle_price_inquiry",
     booking_request |-> "handle_booking_or_handoff",
     human_handoff |-> "handle_general_question",
     general_question |-> "handle_general_question"]

RouteTable ==
    [price_inquiry |-> "handle_price_inquiry",
     booking_request |-> "handle_booking_or_handoff",
     human_handoff |-> "handle_booking_or_handoff",
     general_question |-> "handle_general_question"]

NoResult == [success |-> FALSE, intent |-> "", handoff_required |-> FALSE, error |-> FALSE]

\* what the call saw of the lead when it was entered (kept for the contracts)
NoEntry == [found |-> FALSE, status |-> "", last_contact_at |-> NoTime, ai_messages |-> 0]

IdleReply ==
    [pc |-> "idle", lead_id |-> NoLead, content |-> NoText, classified_intent |-> "",
     is_handoff |-> FALSE, visited |-> <<>>, llm_failed |-> FALSE,
     result |-> NoResult, entry |-> NoEntry]

AiMessages(l) ==
    IF Exists(l) THEN Cardinality({i \in DOMAIN messages[l] : messages[l][i].sender = "ai"})
    ELSE 0

Entry(l) ==
    IF Exists(l)
    THEN [found |-> TRUE, status |-> leads[l].status,
          last_contact_at |-> leads[l].last_contact_at, ai_messages |-> AiMessages(l)]
    ELSE NoEntry

\* invoke_new_message, the except branch: log_error(error_type="instant_reply",
\* lead_id=lead_id) and the structured failure; the call raises when the
\* insert of the error event is refused
Failed(r) ==
    IF EventInsertRefused(r.lead_id)
    THEN /\ reply' = [r EXCEPT !.pc = "raised"]
         /\ events' = events
    ELSE /\ reply' = [r EXCEPT !.pc = "returned",
                               !.result = [NoResult EXCEPT !.error = TRUE]]
         /\ events' = log_error(events, "instant_reply", r.lead_id)

\* invoke_new_message up to the model call of _classify_intent:
\* _get_lead_and_history raises ValueError when the lead is not found
invoke_new_message(l) ==
    /\ reply.pc = "idle"
    /\ EventsRoom(2)
    /\ LET r == [IdleReply EXCEPT !.lead_id = l, !.entry = Entry(l),
                                  !.visited = <<"get_lead_and_history">>]
       IN  IF ~Exists(l)
           THEN Failed(r)
           ELSE /\ reply' = [r EXCEPT !.pc = "classify_intent",
                                      !.visited = Append(@, "classify_intent")]
                /\ events' = events
    /\ UNCHANGED <<now, leads, messages, explainers, pass, probe, campaign, scan, runs>>

\* _classify_intent from the model's answer on, then the routed handler up
\* to its model call
classify_intent(content) ==
    /\ reply.pc = "classify_intent"
    /\ LET intent == ValidatedIntent(content)
           r == [reply EXCEPT !.content = content, !.classified_intent = intent]
       IN  IF intent \notin DOMAIN RouteTable
           THEN Failed(r)
           ELSE /\ reply' = [r EXCEPT !.pc = RouteTable[intent],
                                      !.visited = Append(@, RouteTable[intent])]
                /\ events' = events
    /\ UNCHANGED <<now, leads, messages, explainers, pass, probe, campaign, scan, runs>>

\* _save_response: the AI message, the lead's timestamp and status, the
\* commit, then log_ai_interaction; and the result of invoke_new_message
save_response_KeepsNew(r, sentiment, ev) ==
    LET l == r.lead_id
    IN  /\ messages' = [messages EXCEPT ![l] =
                Append(@, MessageRow("ai", r.classified_intent, sentiment))]
        /\ leads' = [leads EXCEPT ![l] =
                [@ EXCEPT !.last_contact_at = now,
                          !.status = IF r.is_handoff THEN "human_handoff" ELSE @]]
        /\ events' = log_ai_interaction(ev, l, "instant_reply")
        /\ reply' = [r EXCEPT !.pc = "returned",
                              !.visited = Append(@, "save_response"),
                              !.result = [success |-> TRUE, intent |-> r.classified_intent,
                                          handoff_required |-> r.is_handoff,
                                          error |-> FALSE]]

save_response(r, sentiment, ev) ==
    LET l == r.lead_id
    IN  /\ messages' = [messages EXCEPT ![l] =
                Append(@, MessageRow("ai", r.classified_intent, sentiment))]
        /\ leads' = [leads EXCEPT ![l] =
                [@ EXCEPT !.last_contact_at = now,
                          !.status = IF r.is_handoff THEN "human_handoff"
                                     ELSE IF @ = "new" THEN "active"
                                     ELSE @]]
        /\ events' = log_ai_interaction(ev, l, "instant_reply")
        /\ reply' = [r EXCEPT !.pc = "returned",
                              !.visited = Append(@, "save_response"),
                              !.result = [success |-> TRUE, intent |-> r.classified_intent,
                                          handoff_required |-> r.is_handoff,
                                          error |-> FALSE]]

\* the model call of a node fails: the exception leaves the workflow
ModelCallFails_Swallowed(node) ==
    /\ reply.pc = node
    /\ save_response([reply EXCEPT !.llm_failed = TRUE,
                                   !.classified_intent =
                                       IF @ = "" THEN "general_question" ELSE @],
                     0, events)
    /\ UNCHANGED <<now, explainers, pass, probe, campaign, scan, runs>>

ModelCallFails(node) ==
    /\ reply.pc = node
    /\ Failed([reply EXCEPT !.llm_failed = TRUE])
    /\ UNCHANGED <<now, leads, messages, explainers, pass, probe, campaign, scan, runs>>

\* _handle_price_inquiry from the model's answer on: the financial explainer
\* (its commit and its financial_explainer_created event), then _save_response
handle_price_inquiry(sentiment) ==
    /\ reply.pc = "handle_price_inquiry"
    /\ explainers' = Append(explainers, [lead_id |-> reply.lead_id])
    /\ save_response(reply, sentiment,
                     log_event(events, "financial_explainer_created", reply.lead_id, "info"))
    /\ UNCHANGED <<now, pass, probe, campaign, scan, runs>>

\* _handle_booking_or_handoff from the model's answer on, then _save_response
handle_booking_or_handoff(sentiment) ==
    /\ reply.pc = "handle_booking_or_handoff"
    /\ save_response([reply EXCEPT !.is_handoff = TRUE], sentiment, events)
    /\ UNCHANGED <<now, explainers, pass, probe, campaign, scan, runs>>

\* _handle_general_question from the model's answer on, then _save_response
handle_general_question(sentiment) ==
    /\ reply.pc = "handle_general_question"
    /\ save_response(reply, sentiment, events)
    /\ UNCHANGED <<now, explainers, pass, probe, campaign, scan, runs>>

\* the caller takes the result, or the exception
ReplyDone ==
    /\ reply.pc \in {"returned", "raised"}
    /\ reply' = IdleReply
    /\ UNCHANGED <<now, leads, messages, events, explainers, pass, probe, campaign, scan, runs>>

----------------------------------------------------------------------------
(* services/engagement_engine.py: the proactive outreach campaign.         *)
(* The campaign works on the rows of its own database session, as the risk *)
(* pass does; campaign.pc names the model call it awaits.                  *)

NoCampaignStats ==
    [leads_processed |-> 0, leads_contacted |-> 0, leads_skipped |-> 0,
     ai_strategies_selected |-> 0]

\* core/config.py: Settings
cold_lead_cooldown_days == 14
gentle_nudge_days == 14
social_proof_days == 30

HoursPerDay == 24
NullDaysCold == 999     \* days_cold of a lead whose last_contact_at is NULL

\* (datetime.now(timezone.utc) - lead.last_contact_at).days, or 999
DaysCold(row) ==
    IF row.last_contact_at = NoTime THEN NullDaysCold
    ELSE (now - row.last_contact_at) \div HoursPerDay

\* rows of the offers and testimonials tables
Offer(offer_title, valid_for_service, is_active) ==
    [offer_title |-> offer_title, valid_for_service |-> valid_for_service,
     is_active |-> is_active]

Testimonial(service_category, snippet_text) ==
    [service_category |-> service_category, snippet_text |-> snippet_text]

\* relevant_offers: per keyword the active offers valid for it, else the
\* first three active offers
RECURSIVE MatchedOffers(_, _)
MatchedOffers(service_keywords, offers) ==
    IF service_keywords = <<>> THEN <<>>
    ELSE LET Valid(o) == o.valid_for_service = Head(service_keywords) /\ o.is_active
         IN  SelectSeq(offers, Valid) \o MatchedOffers(Tail(service_keywords), offers)

RelevantOffers(service_keywords, offers) ==
    LET Active(o) == o.is_active
    IN  IF MatchedOffers(service_keywords, offers) # <<>>
        THEN MatchedOffers(service_keywords, offers)
        ELSE Take(SelectSeq(offers, Active), 3)

\* relevant_testimonials: per keyword the first testimonial of its category,
\* else the first two of category General
RECURSIVE MatchedTestimonials(_, _)
MatchedTestimonials(service_keywords, testimonials) ==
    IF service_keywords = <<>> THEN <<>>
    ELSE LET Category(t) == t.service_category = Head(service_keywords)
         IN  Take(SelectSeq(testimonials, Category), 1)
                 \o MatchedTestimonials(Tail(service_keywords), testimonials)

RelevantTestimonials(service_keywords, testimonials) ==
    LET General(t) == t.service_category = "General"
    IN  IF MatchedTestimonials(service_keywords, testimonials) # <<>>
        THEN MatchedTestimonials(service_keywords, testimonials)
        ELSE Take(SelectSeq(testimonials, General), 2)

\* The answer of the model to the strategy prompt: the call fails, the text
\* is not JSON, the JSON is not an object, or it is an object in which
\* should_contact is true, false or absent, strategy is a name of the prompt
\* ("other": a name it does not list) or absent, and
\* reasoning and custom_message are present or not.
StrategistAnswers ==
    [kind : {"failed", "unparsable", "not_object"}, should_contact : {"absent"},
     strategy : {"absent"}, reasoning : {FALSE}, custom_message : {FALSE}]
    \cup [kind : {"object"}, should_contact : {"true", "false", "absent"},
          strategy : {"absent", "gentle_nudge", "social_proof", "custom", "other"},
          reasoning : BOOLEAN, custom_message : BOOLEAN]

\* a decision: should_contact is "true", "false" or "absent" (the object has
\* no such key), strategy and reasoning likewise a value or "absent"
NoDecision ==
    [should_contact |-> "false", reasoning |-> "absent", strategy |-> "absent",
     custom_message |-> FALSE, featured_offer |-> "", featured_testimonial |-> "",
     urgency_level |-> ""]

\* the strategy of the inline override: <= 30, <= 45, else
OverrideStrategy_EarlyTiers(days_cold) ==
    IF days_cold < 30 THEN "gentle_nudge"
    ELSE IF days_cold < 45 THEN "social_proof"
    ELSE "incentive_offer"

OverrideStrategy(days_cold) ==
    IF days_cold <= 30 THEN "gentle_nudge"
    ELSE IF days_cold <= 45 THEN "social_proof"
    ELSE "incentive_offer"

\* _fallback_strategy_selection
fallback_strategy_selection_LateTiers(days_cold, relevant_offers, relevant_testimonials) ==
    [should_contact |-> "true",
     reasoning |-> "rule_based",
     strategy |-> IF days_cold <= gentle_nudge_days + 17 THEN "gentle_nudge"
                  ELSE IF days_cold <= social_proof_days + 16 THEN "social_proof"
                  ELSE "incentive_offer",
     custom_message |-> FALSE,
     featured_offer |-> IF relevant_offers # <<>> THEN relevant_offers[1].offer_title ELSE "",
     featured_testimonial |->
         IF relevant_testimonials # <<>> THEN relevant_testimonials[1].snippet_text ELSE "",
     urgency_level |-> IF days_cold > 60 THEN "high" ELSE "medium"]

fallback_strategy_selection(days_cold, relevant_offers, relevant_testimonials) ==
    [should_contact |-> "true",
     reasoning |-> "rule_based",
     strategy |-> IF days_cold <= gentle_nudge_days + 16 THEN "gentle_nudge"
                  ELSE IF days_cold <= social_proof_days + 15 THEN "social_proof"
                  ELSE "incentive_offer",
     custom_message |-> FALSE,
     featured_offer |-> IF relevant_offers # <<>> THEN relevant_offers[1].offer_title ELSE "",
     featured_testimonial |->
         IF relevant_testimonials # <<>> THEN relevant_testimonials[1].snippet_text ELSE "",
     urgency_level |-> IF days_cold > 60 THEN "high" ELSE "medium"]

\* the override of _ai_qualify_and_strategize_lead applies:
\* not strategy_result.get("should_contact", False) and days_cold >= cooldown
ContactForced_Never(answer, days_cold) == FALSE

ContactForced(answer, days_cold) ==
    answer.should_contact # "true" /\ days_cold >= cold_lead_cooldown_days

\* _ai_qualify_and_strategize_lead from the model's answer on: the parsed
\* object with the override for a lead past the cooldown, or the rule-based
\* decision when the call or the parse raises.  The offer and testimonial the
\* model names are free text that only fills the prompt of the message; they
\* are not drawn.
ai_qualify_and_strategize_lead(days_cold, relevant_offers, relevant_testimonials, answer) ==
    IF answer.kind # "object"
    THEN fallback_strategy_selection(days_cold, relevant_offers, relevant_testimonials)
    ELSE LET forced == ContactForced(answer, days_cold)
         IN  [NoDecision EXCEPT
                 !.should_contact = IF forced THEN "true" ELSE answer.should_contact,
                 !.reasoning = IF forced THEN "override"
                               ELSE IF answer.reasoning THEN "model" ELSE "absent",
                 !.strategy = IF forced /\ answer.strategy = "absent"
                              THEN OverrideStrategy(days_cold)
                              ELSE answer.strategy,
                 !.custom_message = answer.custom_message]

\* get_cold_lead_prompt on the context of _build_strategy_context: the
\* templates of social_proof and incentive_offer name service_interest, which
\* the context does not hold, so str.format raises KeyError; every other
\* strategy name formats the gentle-nudge template
PromptFormats(strategy) == strategy \notin {"social_proof", "incentive_offer"}

IdleCampaign ==
    [pc |-> "idle", cold_leads |-> <<>>, lead |-> NoLead, days_cold |-> 0,
     decision |-> NoDecision, pending |-> NoLead, stats |-> NoCampaignStats,
     log |-> [contacted |-> {}, skipped |-> <<>>, entry |-> [l \in {} |-> 0]]]

\* db.commit() of the campaign's session: the pending CONTACTED reaches the table
FlushCampaign(c, table) ==
    IF c.pending = NoLead THEN table
    ELSE [table EXCEPT ![c.pending].status = "contacted"]

\* the selection of run_proactive_outreach_campaign and the statistics at
\* zero; campaign.log keeps, for the contracts, the leads counted as
\* contacted, those counted as skipped (one entry per count) and the number of
\* AI messages each selected lead had
StartCampaign ==
    /\ campaign.pc = "idle"
    /\ LET selected == {l \in DOMAIN leads :
                           leads[l].status = "cold" /\ ~leads[l].do_not_contact}
       IN  campaign' = [IdleCampaign EXCEPT
                           !.pc = "next", !.cold_leads = Ascending(selected),
                           !.stats.leads_processed = Cardinality(selected),
                           !.log.entry = [l \in selected |-> AiMessages(l)]]
    /\ UNCHANGED <<now, leads, messages, events, explainers, reply, pass, probe, scan, runs>>

\* for lead in cold_leads: the next lead up to the model call of
\* _ai_qualify_and_strategize_lead, or the end of the loop
NextColdLead ==
    /\ campaign.pc = "next"
    /\ campaign' =
          IF campaign.cold_leads = <<>>
          THEN [campaign EXCEPT !.pc = "finish"]
          ELSE LET l == Head(campaign.cold_leads)
               IN  [campaign EXCEPT !.pc = "qualify", !.lead = l,
                                    !.cold_leads = Tail(campaign.cold_leads),
                                    !.days_cold = DaysCold(leads[l]),
                                    !.decision = NoDecision]
    /\ UNCHANGED <<now, leads, messages, events, explainers, reply, pass, probe, scan, runs>>

\* the lead of this turn is counted as skipped n times
Skipped(c, n) ==
    [c EXCEPT !.pc = "next", !.pending = NoLead,
              !.stats.leads_skipped = @ + n,
              !.log.skipped = @ \o [i \in 1..n |-> c.lead]]

\* _execute_ai_outreach_strategy from the message text on: the message,
\* last_contact_at, the ai_outreach_<strategy> event (log_event commits); then
\* the counters and lead.status = CONTACTED, pending in the session.  The
\* details of the event read strategy_result['reasoning']: on a decision
\* without it the KeyError is raised with the message and last_contact_at
\* pending, the except branch's log_error commits them and the lead is
\* counted as skipped.
OutreachSent(c, sentiment) ==
    LET l == c.lead
    IN  /\ messages' = [messages EXCEPT ![l] =
                Append(@, MessageRow("ai", "proactive_outreach", sentiment))]
        /\ leads' = [FlushCampaign(c, leads) EXCEPT ![l].last_contact_at = now]
        /\ IF c.decision.reasoning # "absent"
           THEN /\ events' = log_event(events, "ai_outreach_" \o c.decision.strategy, l, "info")
                /\ campaign' = [c EXCEPT !.pc = "next", !.pending = l,
                                         !.stats.leads_contacted = @ + 1,
                                         !.stats.ai_strategies_selected = @ + 1,
                                         !.log.contacted = @ \cup {l}]
           ELSE /\ events' = log_error(events, "ai_strategy_execution", l)
                /\ campaign' = Skipped(c, 1)

\* _execute_ai_outreach_strategy, the except branch: log_error (commits) and
\* False, which the campaign counts as skipped
OutreachFailed(c) ==
    /\ messages' = messages
    /\ leads' = FlushCampaign(c, leads)
    /\ events' = log_error(events, "ai_strategy_execution", c.lead)
    /\ campaign' = Skipped(c, 1)

\* a turn from the strategist's answer on: the decision, read as
\* qualification_result["should_contact"] (KeyError when the object has no
\* such key: the except branch logs the error and counts the skip); for a
\* decision not to contact the skip count and the outreach_lead_skipped
\* event, whose details read qualification_result['reasoning'] (KeyError when
\* the model gave none: the except branch logs the error and counts the skip
\* again); for a decision to contact _execute_ai_outreach_strategy up to its
\* model call, or to its end when it makes none
Qualify(answer, sentiment) ==
    /\ campaign.pc = "qualify"
    /\ LET decision == ai_qualify_and_strategize_lead(campaign.days_cold, <<>>, <<>>, answer)
           c == [campaign EXCEPT !.decision = decision]
       IN  IF decision.should_contact = "absent"
           THEN /\ messages' = messages
                /\ leads' = FlushCampaign(c, leads)
                /\ events' = log_error(events, "proactive_outreach", c.lead)
                /\ campaign' = Skipped(c, 1)
           ELSE IF decision.should_contact = "false"
           THEN /\ messages' = messages
                /\ leads' = FlushCampaign(c, leads)
                /\ IF decision.reasoning = "absent"
                   THEN /\ events' = log_error(events, "proactive_outreach", c.lead)
                        /\ campaign' = Skipped(c, 2)
                   ELSE /\ events' = log_event(events, "outreach_lead_skipped", c.lead, "info")
                        /\ campaign' = Skipped(c, 1)
           ELSE IF decision.strategy = "absent"
           THEN OutreachFailed(c)
           ELSE IF decision.strategy = "custom" /\ decision.custom_message
           THEN OutreachSent(c, sentiment)
           ELSE IF ~PromptFormats(decision.strategy)
           THEN OutreachFailed(c)
           ELSE /\ campaign' = [c EXCEPT !.pc = "execute"]
                /\ UNCHANGED <<leads, messages, events>>
    /\ UNCHANGED <<now, explainers, reply, pass, probe, scan, runs>>

\* _execute_ai_outreach_strategy from the model's answer to the message
\* prompt on
ExecuteOutreach(answered, sentiment) ==
    /\ campaign.pc = "execute"
    /\ IF answered THEN OutreachSent(campaign, sentiment) ELSE OutreachFailed(campaign)
    /\ UNCHANGED <<now, explainers, reply, pass, probe, scan, runs>>

\* after the loop: db.commit(), log_outreach_campaign, return stats
FinishCampaign ==
    /\ campaign.pc = "finish"
    /\ leads' = FlushCampaign(campaign, leads)
    /\ events' = log_outreach_campaign(events, "proactive_outreach")
    /\ campaign' = [campaign EXCEPT !.pc = "returned", !.pending = NoLead]
    /\ UNCHANGED <<now, messages, explainers, reply, pass, probe, scan, runs>>

----------------------------------------------------------------------------
(* services/risk_analyzer.py: the opportunity scan.                         *)
(* The scan works on the rows of its own database session.  A row it holds *)
(* keeps the values of its last load until a commit of the session expires *)
(* it; scan.pc names the model call the scan awaits.                       *)

NoScanStats ==
    [total_scanned |-> 0, opportunities_identified |-> 0, proactive_messages_sent |-> 0,
     leads_escalated |-> 0]

\* (now - lead.created_at).days
DaysSinceCreation(row) == (now - row.created_at) \div HoursPerDay

\* The answer of the model to the analysis prompt: the call fails, the text
\* is not JSON, the JSON is not an object, or it is an object in which
\* should_engage is true, false, a non-empty string ("text") or absent,
\* strategy is a name or absent, and reasoning and urgency_level are present
\* or not.
OpportunityAnswers ==
    [kind : {"failed", "unparsable", "not_object"}, should_engage : {"absent"},
     strategy : {"absent"}, reasoning : {FALSE}, urgency_level : {FALSE}]
    \cup [kind : {"object"}, should_engage : {"true", "false", "text", "absent"},
          strategy : {"proactive_outreach", "escalate_to_human", "none", "other", "absent"},
          reasoning : BOOLEAN, urgency_level : BOOLEAN]

\* an assessment: the parsed JSON value.  subscriptable is FALSE for a value
\* that is not an object; a key the object does not hold is "absent"
NoAssessmentYet ==
    [subscriptable |-> TRUE, should_engage |-> "absent", strategy |-> "absent",
     reasoning |-> "absent", recommended_offer |-> "", urgency_level |-> "absent",
     next_best_action |-> "absent"]

FallbackAssessment(strategy, reasoning, recommended_offer, urgency_level, next_best_action) ==
    [subscriptable |-> TRUE,
     should_engage |-> IF strategy = "none" THEN "false" ELSE "true",
     strategy |-> strategy, reasoning |-> reasoning,
     recommended_offer |-> recommended_offer, urgency_level |-> urgency_level,
     next_best_action |-> next_best_action]

\* _fallback_opportunity_analysis
fallback_opportunity_analysis(row, days_since_creation, relevant_offers) ==
    LET has_offers == Len(relevant_offers) > 0
    IN  IF row.status = "new" /\ days_since_creation > 1
        THEN FallbackAssessment("proactive_outreach", "New lead hasn't been engaged yet",
                 IF has_offers THEN relevant_offers[1].offer_title ELSE "Welcome consultation",
                 "medium", "Send welcome message with relevant offer")
        ELSE IF row.status = "at_risk" /\ row.risk_level = "high"
        THEN FallbackAssessment("proactive_outreach", "High-risk lead needs immediate attention",
                 IF has_offers THEN "Special consultation discount" ELSE "Urgent follow-up",
                 "high", "Send aggressive retention offer")
        ELSE IF row.status = "at_risk" /\ row.risk_level = "medium"
        THEN FallbackAssessment("proactive_outreach", "Medium-risk lead needs attention",
                 IF has_offers THEN "Follow-up consultation" ELSE "Check-in message",
                 "medium", "Send supportive follow-up message")
        ELSE IF row.status = "active" /\ days_since_creation > 3
        THEN FallbackAssessment("proactive_outreach", "Active lead may need follow-up",
                 IF has_offers THEN "Progress check-in" ELSE "General follow-up",
                 "low", "Send friendly check-in message")
        ELSE FallbackAssessment("none", "No immediate opportunity identified", "",
                 "low", "Continue monitoring")

\* _ai_analyze_lead_opportunity from the model's answer on: json.loads of
\* the text as it is, or the rule-based assessment when the call or the parse
\* raises
ai_analyze_lead_opportunity(row, days_since_creation, relevant_offers, answer) ==
    IF answer.kind \in {"failed", "unparsable"}
    THEN fallback_opportunity_analysis(row, days_since_creation, relevant_offers)
    ELSE IF answer.kind = "not_object"
    THEN [NoAssessmentYet EXCEPT !.subscriptable = FALSE]
    ELSE [NoAssessmentYet EXCEPT
             !.should_engage = answer.should_engage,
             !.strategy = answer.strategy,
             !.reasoning = IF answer.reasoning THEN "model" ELSE "absent",
             !.urgency_level = IF answer.urgency_level THEN "model" ELSE "absent"]

\* scan.loaded: the rows as the query of the scan loaded them; scan.committed:
\* the session has committed since; scan.seen: the row of the lead of this
\* turn as the session holds it; scan.selected: the ids the query selected
\* (kept for the contracts)
IdleScan ==
    [pc |-> "idle", scan_candidates |-> <<>>, lead |-> NoLead, loaded |-> <<>>,
     committed |-> FALSE, seen |-> NewLead, assessment |-> NoAssessmentYet,
     stats |-> NoScanStats, selected |-> {}]

\* the selection of scan_all_leads_for_opportunities and the statistics at zero
StartScan_SelectsCold ==
    /\ scan.pc = "idle"
    /\ LET selected == {l \in DOMAIN leads :
                           /\ leads[l].status \in {"new", "active", "at_risk", "cold"}
                           /\ ~leads[l].do_not_contact}
       IN  scan' = [IdleScan EXCEPT
                       !.pc = "next", !.scan_candidates = Ascending(selected),
                       !.loaded = [l \in selected |-> leads[l]],
                       !.stats.total_scanned = Cardinality(selected),
                       !.selected = selected]
    /\ UNCHANGED <<now, leads, messages, events, explainers, reply, pass, probe, campaign, runs>>

StartScan ==
    /\ scan.pc = "idle"
    /\ LET selected == {l \in DOMAIN leads :
                           /\ leads[l].status \in {"new", "active", "at_risk"}
                           /\ ~leads[l].do_not_contact}
       IN  scan' = [IdleScan EXCEPT
                       !.pc = "next", !.scan_candidates = Ascending(selected),
                       !.loaded = [l \in selected |-> leads[l]],
                       !.stats.total_scanned = Cardinality(selected),
                       !.selected = selected]
    /\ UNCHANGED <<now, leads, messages, events, explainers, reply, pass, probe, campaign, runs>>

\* for lead in scan_candidates: the next lead up to the model call of
\* _ai_analyze_lead_opportunity (the prompt reads the lead's row), or the end
\* of the loop
NextScanLead ==
    /\ scan.pc = "next"
    /\ scan' =
          IF scan.scan_candidates = <<>>
          THEN [scan EXCEPT !.pc = "finish"]
          ELSE LET l == Head(scan.scan_candidates)
               IN  [scan EXCEPT !.pc = "analyze", !.lead = l,
                                !.scan_candidates = Tail(scan.scan_candidates),
                                !.seen = IF scan.committed THEN leads[l] ELSE scan.loaded[l],
                                !.assessment = NoAssessmentYet]
    /\ UNCHANGED <<now, leads, messages, events, explainers, reply, pass, probe, campaign, runs>>

\* the except branch of the loop: log_error (commits) and the next lead
ScanTurnRaised(sc) ==
    /\ events' = log_error(events, "opportunity_scanning", sc.lead)
    /\ scan' = [sc EXCEPT !.pc = "next", !.committed = TRUE]

\* a turn from the model's answer to the analysis prompt on.  The loop reads
\* opportunity_assessment["should_engage"] (TypeError on a value that is not
\* an object, KeyError on an object without the key) and, for a true value,
\* counts the opportunity and reads opportunity_assessment["strategy"]
\* (KeyError likewise).  proactive_outreach: _send_proactive_engagement up to
\* its model call; its prompt reads assessment['reasoning'] and
\* assessment['urgency_level'], and a KeyError there is caught inside it
\* (log_error commits, False).  escalate_to_human: HUMAN_HANDOFF, the reason,
\* the count and the ai_escalation event (log_event commits), whose details
\* read opportunity_assessment['reasoning'].
AnalyzeOpportunity(answer) ==
    /\ scan.pc = "analyze"
    /\ LET l == scan.lead
           assessment == ai_analyze_lead_opportunity(scan.seen, DaysSinceCreation(scan.seen),
                                                     <<>>, answer)
           sc == [scan EXCEPT !.assessment = assessment]
           counted == [sc EXCEPT !.stats.opportunities_identified = @ + 1]
       IN  IF ~assessment.subscriptable \/ assessment.should_engage = "absent"
           THEN /\ ScanTurnRaised(sc)
                /\ UNCHANGED leads
           ELSE IF assessment.should_engage = "false"
           THEN /\ scan' = [sc EXCEPT !.pc = "next"]
                /\ UNCHANGED <<leads, events>>
           ELSE IF assessment.strategy = "absent"
           THEN /\ ScanTurnRaised(counted)
                /\ UNCHANGED leads
           ELSE IF assessment.strategy = "proactive_outreach"
           THEN IF assessment.reasoning = "absent" \/ assessment.urgency_level = "absent"
                THEN /\ events' = log_error(events, "proactive_engagement", l)
                     /\ scan' = [counted EXCEPT !.pc = "next", !.committed = TRUE]
                     /\ UNCHANGED leads
                ELSE /\ scan' = [counted EXCEPT !.pc = "engage"]
                     /\ UNCHANGED <<leads, events>>
           ELSE IF assessment.strategy = "escalate_to_human"
           THEN /\ leads' = [leads EXCEPT ![l] =
                        [@ EXCEPT !.status = "human_handoff",
                                  !.reason_for_cold =
                                      "AI identified high-value opportunity requiring human attention"]]
                /\ IF assessment.reasoning = "absent"
                   THEN ScanTurnRaised([counted EXCEPT !.stats.leads_escalated = @ + 1])
                   ELSE /\ events' = log_event(events, "ai_escalation", l, "info")
                        /\ scan' = [counted EXCEPT !.pc = "next", !.committed = TRUE,
                                                   !.stats.leads_escalated = @ + 1]
           ELSE /\ scan' = [counted EXCEPT !.pc = "next"]
                /\ UNCHANGED <<leads, events>>
    /\ UNCHANGED <<now, messages, explainers, reply, pass, probe, campaign, runs>>

\* _send_proactive_engagement from the model's answer to the message prompt
\* on: the message, last_contact_at and the ai_proactive_engagement event
\* (log_event commits); on a failed call the error event (log_error commits)
ProactiveEngagement(answered, sentiment) ==
    /\ scan.pc = "engage"
    /\ LET l == scan.lead
       IN  IF answered
           THEN /\ messages' = [messages EXCEPT ![l] =
                       Append(@, MessageRow("ai", "proactive_engagement", sentiment))]
                /\ leads' = [leads EXCEPT ![l].last_contact_at = now]
                /\ events' = log_event(events, "ai_proactive_engagement", l, "info")
                /\ scan' = [scan EXCEPT !.pc = "next", !.committed = TRUE,
                                        !.stats.proactive_messages_sent = @ + 1]
           ELSE /\ events' = log_error(events, "proactive_engagement", l)
                /\ scan' = [scan EXCEPT !.pc = "next", !.committed = TRUE]
                /\ UNCHANGED <<leads, messages>>
    /\ UNCHANGED <<now, explainers, reply, pass, probe, campaign, runs>>

\* after the loop: db.commit(), the ai_lead_scanning event and the stats;
\* run_ai_lead_scanning, the caller, logs the event a second time
FinishScan ==
    /\ scan.pc = "finish"
    /\ events' = log_event(log_event(events, "ai_lead_scanning", NoLead, "info"),
                           "ai_lead_scanning", NoLead, "info")
    /\ scan' = [IdleScan EXCEPT !.stats = scan.stats, !.selected = scan.selected]
    /\ UNCHANGED <<now, leads, messages, explainers, reply, pass, probe, campaign, runs>>

----------------------------------------------------------------------------
(* main.py and api/endpoints/agents.py: the starts of the batch jobs.       *)
(* A run is in flight from its start to the return of its coroutine; it    *)
(* gives way to the event loop at each call of the language model, where   *)
(* the scheduler may fire and requests are handled.  runs counts the runs  *)
(* in flight by what started them.                                         *)

\* scheduler.add_job(id=...)
SchedulerJobs == {"risk_analysis_job", "ai_lead_scanning_job", "daily_outreach_check"}

\* the trigger endpoints of the agents router
TriggerEndpoints == {"trigger_proactive_outreach", "trigger_risk_analysis"}

\* the batch the job function or the endpoint awaits; run_daily_outreach_check
\* only counts the cold leads
BatchOf ==
    [risk_analysis_job |-> "analyze_all_active_leads",
     ai_lead_scanning_job |-> "scan_all_leads_for_opportunities",
     daily_outreach_check |-> "none",
     trigger_proactive_outreach |-> "run_proactive_outreach_campaign",
     trigger_risk_analysis |-> "analyze_all_active_leads"]

BatchKinds ==
    {"analyze_all_active_leads", "scan_all_leads_for_opportunities",
     "run_proactive_outreach_campaign"}

max_instances == 1      \* add_job(..., max_instances=1)

NoRuns == [starter \in SchedulerJobs \cup TriggerEndpoints |-> 0]

RECURSIVE SumOver(_, _)
SumOver(f, keys) ==
    IF keys = {} THEN 0
    ELSE LET k == CHOOSE x \in keys : TRUE IN f[k] + SumOver(f, keys \ {k})

\* the runs of a batch in flight
InFlight(batch) == SumOver(runs, {starter \in DOMAIN runs : BatchOf[starter] = batch})

\* an interval trigger fires: the scheduler starts the job function unless
\* max_instances runs of this job are in flight
SchedulerFires(job) ==
    /\ runs[job] < max_instances
    /\ runs' = [runs EXCEPT ![job] = @ + 1]
    /\ UNCHANGED <<now, leads, messages, events, explainers, reply, pass, probe, campaign, scan>>

\* POST /agents/trigger-outreach, POST /agents/analyze-risk: the handler
\* awaits the batch
TriggerRequest(endpoint) ==
    /\ runs[endpoint] < MaxTriggers
    /\ runs' = [runs EXCEPT ![endpoint] = @ + 1]
    /\ UNCHANGED <<now, leads, messages, events, explainers, reply, pass, probe, campaign, scan>>

\* the coroutine of a run returns
RunReturns(starter) ==
    /\ runs[starter] > 0
    /\ runs' = [runs EXCEPT ![starter] = @ - 1]
    /\ UNCHANGED <<now, leads, messages, events, explainers, reply, pass, probe, campaign, scan>>

----------------------------------------------------------------------------
(* services/asset_generator.py: financial explainers.                      *)
(* Money is counted in cents; a product of an amount and a coverage is     *)
(* counted in points, 1/100 of a cent, so that it is exact for coverages   *)
(* of whole percents.  A coverage is counted in percent.  An optional      *)
(* argument is a sequence of at most one value.                            *)

PointsPerCent == 100
PercentScale == 100

\* core/config.py: Settings, in cents and in percent
default_procedure_cost == 250000
default_insurance_coverage == 50

None == <<>>
Some(value) == <<value>>

\* the truth value Python gives an optional number: None and 0 are false
Falsy(optional) == optional = None \/ optional[1] = 0

\* a // b and the absolute value
FloorDiv(a, b) == a \div b
Abs(a) == IF a < 0 THEN 0 - a ELSE a

\* a value stored in a Numeric(10, 2) column: the points rounded to cents,
\* halves away from zero
Numeric2(points) ==
    LET cents == FloorDiv(Abs(points) + PointsPerCent \div 2, PointsPerCent)
    IN  IF points < 0 THEN 0 - cents ELSE cents

\* round(total_cost / months, 2) in cents: the nearest cent; a value half way
\* between two cents goes to the one or the other, as the binary value of the
\* quotient falls
round2_Truncates(points, months) ==
    {FloorDiv(points, PointsPerCent * months)}

round2(points, months) ==
    LET den == PointsPerCent * months
        q == FloorDiv(2 * points + den, 2 * den)
    IN  IF (2 * points + den) % (2 * den) = 0 THEN {q - 1, q} ELSE {q}

\* get_payment_plan_months() of the payment_plan_options setting "12,24,36"
DefaultPlanMonths == <<12, 24, 36>>

\* calculate_payment_plans: the outcomes of the dictionary, keyed by the
\* months of "<months> months"; plans of months <= 0 are left out
calculate_payment_plans(total_cost, plan_months) ==
    LET plans == {plan_months[i] : i \in DOMAIN plan_months}
        offered == {months \in plans : months > 0}
        amounts == UNION {round2(total_cost, months) : months \in offered}
    IN  {payment_plans \in [offered -> amounts] :
            \A months \in offered : payment_plans[months] \in round2(total_cost, months)}

\* core/utils.py: extract_service_keywords.  A text is drawn as the set of
\* the services of which it holds a keyword; the result lists them in the
\* order of the keyword table.
ServiceOrder ==
    <<"invisalign", "implants", "whitening", "crown", "veneer", "cleaning",
      "extraction", "root_canal", "braces", "gum_treatment">>

extract_service_keywords(text) ==
    LET Found(service) == service \in text
    IN  SelectSeq(ServiceOrder, Found)

\* primary_service.replace('_', ' ').title()
ProcedureTitle ==
    [invisalign |-> "Invisalign", implants |-> "Implants", whitening |-> "Whitening",
     crown |-> "Crown", veneer |-> "Veneer", cleaning |-> "Cleaning",
     extraction |-> "Extraction", root_canal |-> "Root Canal", braces |-> "Braces",
     gum_treatment |-> "Gum Treatment"]

\* estimate_procedure_cost: the table in cents
cost_estimates ==
    [invisalign |-> 450000, implants |-> 350000, crown |-> 120000, veneer |-> 100000,
     whitening |-> 45000, cleaning |-> 15000, extraction |-> 20000, root_canal |-> 80000,
     braces |-> 500000, gum_treatment |-> 60000]

\* _estimate_insurance_coverage: the table in percent
coverage_estimates ==
    [cleaning |-> 100, extraction |-> 80, crown |-> 50, root_canal |-> 60, implants |-> 0,
     invisalign |-> 0, whitening |-> 0, veneer |-> 0, braces |-> 30, gum_treatment |-> 70]

\* estimate_procedure_cost: the cost of the first keyword of the table, else
\* the default (every procedure name of create_intelligent_financial_explainer
\* is the title of its first keyword)
estimate_procedure_cost(service_keywords) ==
    LET Known(keyword) == keyword \in DOMAIN cost_estimates
        known == SelectSeq(service_keywords, Known)
    IN  IF known # <<>> THEN cost_estimates[known[1]] ELSE default_procedure_cost

RECURSIVE MaxCoverage(_)
MaxCoverage(service_keywords) ==
    IF service_keywords = <<>> THEN 0
    ELSE LET rest == MaxCoverage(Tail(service_keywords))
             first == IF Head(service_keywords) \in DOMAIN coverage_estimates
                      THEN coverage_estimates[Head(service_keywords)] ELSE 0
         IN  IF first > rest THEN first ELSE rest

\* _estimate_insurance_coverage: max_coverage or settings.default_insurance_coverage
estimate_insurance_coverage(service_keywords) ==
    IF MaxCoverage(service_keywords) = 0 THEN default_insurance_coverage
    ELSE MaxCoverage(service_keywords)

\* FinancialExplainer(...) as the table holds it after the commit.  computed
\* keeps, for the contracts, the amounts in points as create_financial_explainer
\* computed them, the coverage it used and the arguments of the call.
ExplainerRow(lead_id, procedure_name, total_cost, coverage_percent, payment_options, call) ==
    LET estimated_insurance == total_cost * coverage_percent
        out_of_pocket == total_cost * PercentScale - estimated_insurance
    IN  [lead_id |-> lead_id, procedure_name |-> procedure_name,
         total_cost |-> total_cost,
         estimated_insurance |-> Numeric2(estimated_insurance),
         out_of_pocket_cost |-> Numeric2(out_of_pocket),
         payment_options |-> payment_options,
         is_accessed |-> FALSE, access_count |-> 0,
         first_accessed_at |-> NoTime, last_accessed_at |-> NoTime,
         computed |-> [estimated_insurance |-> estimated_insurance,
                       out_of_pocket |-> out_of_pocket,
                       coverage_percent |-> coverage_percent, call |-> call]]

\* create_financial_explainer: the row, its commit and its
\* financial_explainer_created event
create_financial_explainer(l, procedure_name, estimated_cost, insurance_coverage_percent, plan_months, call) ==
    LET total_cost == IF Falsy(estimated_cost) THEN default_procedure_cost
                      ELSE estimated_cost[1]
        coverage_percent == IF Falsy(insurance_coverage_percent)
                            THEN default_insurance_coverage
                            ELSE insurance_coverage_percent[1]
        out_of_pocket == total_cost * PercentScale - total_cost * coverage_percent
    IN  /\ Exists(l)
        /\ \E payment_options \in calculate_payment_plans(out_of_pocket, plan_months) :
               explainers' = Append(explainers,
                                 ExplainerRow(l, procedure_name, total_cost, coverage_percent,
                                              payment_options, call))
        /\ events' = log_event(events, "financial_explainer_created", l, "info")

\* create_intelligent_financial_explainer on a conversation text
create_intelligent_financial_explainer(l, text, plan_months) ==
    LET service_keywords == extract_service_keywords(text)
        procedure_name == IF service_keywords # <<>>
                          THEN ProcedureTitle[service_keywords[1]]
                          ELSE "Dental Treatment"
        estimated_cost == IF service_keywords # <<>>
                          THEN estimate_procedure_cost(service_keywords)
                          ELSE default_procedure_cost
        insurance_coverage == estimate_insurance_coverage(service_keywords)
    IN  create_financial_explainer(l, procedure_name, Some(estimated_cost),
                                   Some(insurance_coverage), plan_months,
                                   [intelligent |-> TRUE, service_keywords |-> service_keywords])

\* mark_explainer_accessed: the access tracking, the commit and the
\* financial_explainer_accessed event
mark_explainer_accessed_ResetsFirst(token) ==
    /\ token \in DOMAIN explainers
    /\ explainers' = [explainers EXCEPT ![token] =
            [@ EXCEPT !.is_accessed = TRUE,
                      !.first_accessed_at = now,
                      !.access_count = @ + 1,
                      !.last_accessed_at = now]]
    /\ events' = log_event(events, "financial_explainer_accessed",
                           explainers[token].lead_id, "info")

mark_explainer_accessed(token) ==
    /\ token \in DOMAIN explainers
    /\ explainers' = [explainers EXCEPT ![token] =
            [@ EXCEPT !.is_accessed = TRUE,
                      !.first_accessed_at = IF explainers[token].is_accessed THEN @ ELSE now,
                      !.access_count = @ + 1,
                      !.last_accessed_at = now]]
    /\ events' = log_event(events, "financial_explainer_accessed",
                           explainers[token].lead_id, "info")

----------------------------------------------------------------------------
(* api/endpoints/messages.py *)

\* POST /messages: the message row; a message of the lead starts the reply
create_message(l, sender, sentiment) ==
    /\ Exists(l)
    /\ Len(messages[l]) < MaxMsgs
    /\ EventsRoom(2)
    /\ messages' = [messages EXCEPT ![l] = Append(@, MessageRow(sender, "", sentiment))]
    /\ reply' = IF sender = "lead"
                THEN [IdleReply EXCEPT !.pc = "classify_intent", !.lead_id = l,
                                       !.entry = Entry(l),
                                       !.visited = <<"get_lead_and_history", "classify_intent">>]
                ELSE reply
    /\ UNCHANGED <<now, leads, events, explainers, pass, probe, campaign, scan, runs>>

----------------------------------------------------------------------------
(* SpecReply: the lead API, the message API and invoke_new_message, one    *)
(* call at a time.                                                         *)

\* a request is handled while no reply is in flight and while the pass, if
\* one is running, awaits the language model
Idle == reply.pc = "idle" /\ pass.pc \in {"idle", "retention", "intervention"}

InitStore ==
    /\ now = 0
    /\ leads = <<>>
    /\ messages = <<>>
    /\ events = EmptyBag
    /\ explainers = <<>>

CreateLead ==
    /\ Idle
    /\ \E l \in 1..ReplyLeads : create_lead(l)
    /\ UNCHANGED <<now, explainers, reply, pass, probe, campaign, scan, runs>>

UpdateLeadStatus ==
    /\ Idle
    /\ \E l \in LeadIds, status \in LeadStatus : update_lead_status(l, status, "")
    /\ UNCHANGED <<now, messages, explainers, reply, pass, probe, campaign, scan, runs>>

DeleteLead ==
    /\ Idle
    /\ \E l \in LeadIds : delete_lead(l)
    /\ UNCHANGED <<now, messages, explainers, reply, pass, probe, campaign, scan, runs>>

Clock ==
    /\ Idle
    /\ Tick
    /\ UNCHANGED <<leads, messages, events, explainers, reply, pass, probe, campaign, scan, runs>>

CreateMessage ==
    /\ Idle
    /\ \E l \in LeadIds, sender \in SenderType, sentiment \in MsgSentiments :
           create_message(l, sender, sentiment)

InvokeNewMessage == \E l \in LeadIds : invoke_new_message(l)

ClassifyIntent == \E content \in LabelTexts : classify_intent(content)

ModelFails ==
    \E node \in {"classify_intent", "handle_price_inquiry",
                 "handle_booking_or_handoff", "handle_general_question"} :
        ModelCallFails(node)

HandlePriceInquiry == \E sentiment \in AiSentiments : handle_price_inquiry(sentiment)
HandleBookingOrHandoff == \E sentiment \in AiSentiments : handle_booking_or_handoff(sentiment)
HandleGeneralQuestion == \E sentiment \in AiSentiments : handle_general_question(sentiment)

NoProbe ==
    [sentiment |-> 0, gap |-> 0, count |-> 0, history |-> <<>>, risk_level |-> "unset",
     sample |-> <<>>, weights |-> <<>>, weighted |-> 0, weighed |-> FALSE]

InitReply ==
    /\ InitStore
    /\ reply = IdleReply
    /\ pass = IdlePass
    /\ probe = NoProbe
    /\ campaign = IdleCampaign
    /\ scan = IdleScan
    /\ runs = NoRuns

NextReply ==
    \/ CreateLead
    \/ UpdateLeadStatus
    \/ DeleteLead
    \/ Clock
    \/ CreateMessage
    \/ InvokeNewMessage
    \/ ClassifyIntent
    \/ ModelFails
    \/ HandlePriceInquiry
    \/ HandleBookingOrHandoff
    \/ HandleGeneralQuestion
    \/ ReplyDone

SpecReply == InitReply /\ [][NextReply]_vars

----------------------------------------------------------------------------
(* Spec: analyze_all_active_leads against the lead API.  The store starts  *)
(* with leads and conversations as earlier requests (create_lead,          *)
(* update_lead, create_message, delete_lead) leave them; the requests of   *)
(* the model are those handled while the pass awaits the language model.   *)

SeedStatuses == {"active", "at_risk"}
SeedSentiments == {<<>>, <<-50>>, <<-50, 40>>}

\* a lead that DELETE /leads/{lead_id} has soft-deleted
DeletedLead == [NewLead EXCEPT !.status = "do_not_contact", !.do_not_contact = TRUE]

SeedLeads ==
    {[NewLead EXCEPT !.status = status, !.risk_level = risk_level] :
        status \in SeedStatuses, risk_level \in {"low", "high"}}
    \cup {DeletedLead}

SeedHistory(sentiments) ==
    [i \in 1..Len(sentiments) |->
        [sender |-> "lead", intent_classification |-> "",
         sentiment |-> sentiments[i], created_at |-> 0]]

SeedHistories == {SeedHistory(sentiments) : sentiments \in SeedSentiments}

Init ==
    /\ now = 0
    /\ leads \in [LeadIds -> SeedLeads]
    /\ messages \in [LeadIds -> SeedHistories]
    /\ events = EmptyBag
    /\ explainers = <<>>
    /\ reply = IdleReply
    /\ pass = IdlePass
    /\ probe = NoProbe
    /\ campaign = IdleCampaign
    /\ scan = IdleScan
    /\ runs = NoRuns

PassesRun == CopiesIn(EventRow("outreach_campaign_risk_analysis", NoLead, "info"), events)

AnalyzeAllActiveLeads ==
    /\ PassesRun < MaxPasses
    /\ StartPass

\* the rows of system_events that requests have logged
RequestEvents ==
    LET rows == {e \in BagToSet(events) :
                    e.event_type \in {"lead_created", "lead_deleted", "lead_status_change"}}
    IN  BagCardinality([e \in rows |-> events[e]])

\* the pass awaits the language model: the event loop handles requests
Awaiting ==
    /\ pass.pc \in {"retention", "intervention"}
    /\ RequestEvents < MaxRequests

UpdateLead ==
    /\ Awaiting
    /\ \E l \in LeadIds, upd \in LeadUpdates : update_lead(l, upd)
    /\ UNCHANGED <<now, messages, explainers, reply, pass, probe, campaign, scan, runs>>

UpdateLeadStatusDuringPass ==
    /\ Awaiting
    /\ UpdateLeadStatus

DeleteLeadDuringPass ==
    /\ Awaiting
    /\ DeleteLead

ModelAnswers == BOOLEAN \X AiSentiments

SendRetentionOffer ==
    \E answer \in ModelAnswers : RetentionOffer(answer[1], answer[2])

SendPredictiveIntervention ==
    \E answer \in ModelAnswers : PredictiveIntervention(answer[1], answer[2])

Next ==
    \/ AnalyzeAllActiveLeads
    \/ NextLead
    \/ AssessLead
    \/ SendRetentionOffer
    \/ SendPredictiveIntervention
    \/ ColdCheck
    \/ FinishPass
    \/ UpdateLead
    \/ UpdateLeadStatusDuringPass
    \/ DeleteLeadDuringPass
    \/ Clock

Spec == Init /\ [][Next]_vars

----------------------------------------------------------------------------
(* SpecPass: analyze_all_active_leads alone, over leads with a last        *)
(* contact, at times up to MaxTicks * TickHours, with turns that raise.    *)

PassSeedLeads ==
    {[NewLead EXCEPT !.status = status, !.risk_level = risk_level,
                     !.last_contact_at = last_contact_at] :
        status \in SeedStatuses, risk_level \in LeadRiskLevel,
        last_contact_at \in {NoTime, 0, 70}}

InitPass ==
    /\ now = 0
    /\ leads \in [LeadIds -> PassSeedLeads]
    /\ messages \in [LeadIds -> {SeedHistory(sentiments) : sentiments \in {<<>>, <<-50>>, <<40, 40, 40>>}}]
    /\ events = EmptyBag
    /\ explainers = <<>>
    /\ reply = IdleReply
    /\ pass = IdlePass
    /\ probe = NoProbe
    /\ campaign = IdleCampaign
    /\ scan = IdleScan
    /\ runs = NoRuns

\* time passes between the runs of the jobs
ClockBetweenRuns ==
    /\ pass.pc = "idle"
    /\ campaign.pc = "idle"
    /\ scan.pc = "idle"
    /\ Clock

NextPass ==
    \/ AnalyzeAllActiveLeads
    \/ NextLead
    \/ AssessLead
    \/ SendRetentionOffer
    \/ SendPredictiveIntervention
    \/ ColdCheck
    \/ TurnRaises
    \/ FinishPass
    \/ ClockBetweenRuns

SpecPass == InitPass /\ [][NextPass]_vars

----------------------------------------------------------------------------
(* SpecFrame: analyze_all_active_leads alone, over leads of every status,  *)
(* with and without the do_not_contact mark.                               *)

FrameSeedLeads ==
    {[NewLead EXCEPT !.status = status, !.do_not_contact = do_not_contact,
                     !.last_contact_at = last_contact_at] :
        status \in LeadStatus, do_not_contact \in BOOLEAN, last_contact_at \in {NoTime, 0}}

InitFrame ==
    /\ now = 0
    /\ leads \in [LeadIds -> FrameSeedLeads]
    /\ messages \in [LeadIds -> {SeedHistory(sentiments) : sentiments \in {<<>>, <<-50>>}}]
    /\ events = EmptyBag
    /\ explainers = <<>>
    /\ reply = IdleReply
    /\ pass = IdlePass
    /\ probe = NoProbe
    /\ campaign = IdleCampaign
    /\ scan = IdleScan
    /\ runs = NoRuns

SpecFrame == InitFrame /\ [][NextPass]_vars

----------------------------------------------------------------------------
(* SpecCampaign: run_proactive_outreach_campaign alone, over cold leads    *)
(* with and without a last contact and a conversation; the offers and      *)
(* testimonials tables are empty.                                          *)

CampaignSeedLeads ==
    {[NewLead EXCEPT !.status = status, !.last_contact_at = last_contact_at] :
        status \in {"cold", "active"}, last_contact_at \in {NoTime, 0}}

InitCampaign ==
    /\ now = 0
    /\ leads \in [LeadIds -> CampaignSeedLeads]
    /\ messages \in [LeadIds ->
           {<<>>} \cup {<<[sender |-> sender, intent_classification |-> "",
                           sentiment |-> 40, created_at |-> 0]>> :
                           sender \in {"lead", "human"}}]
    /\ events = EmptyBag
    /\ explainers = <<>>
    /\ reply = IdleReply
    /\ pass = IdlePass
    /\ probe = NoProbe
    /\ campaign = IdleCampaign
    /\ scan = IdleScan
    /\ runs = NoRuns

QualifyAndStrategize ==
    \E answer \in StrategistAnswers, sentiment \in AiSentiments : Qualify(answer, sentiment)

ExecuteOutreachStrategy ==
    \E answer \in ModelAnswers : ExecuteOutreach(answer[1], answer[2])

NextCampaign ==
    \/ StartCampaign
    \/ NextColdLead
    \/ QualifyAndStrategize
    \/ ExecuteOutreachStrategy
    \/ FinishCampaign
    \/ ClockBetweenRuns

SpecCampaign == InitCampaign /\ [][NextCampaign]_vars

----------------------------------------------------------------------------
(* SpecCampaigns: run_proactive_outreach_campaign is called again after it *)
(* has returned, with no other operation in between.                       *)

CampaignsRun ==
    CopiesIn(EventRow("outreach_campaign_proactive_outreach", NoLead, "info"), events)

\* the call has returned its stats: the next call can be made
CampaignReturns ==
    /\ campaign.pc = "returned"
    /\ CampaignsRun < MaxCampaigns
    /\ campaign' = IdleCampaign
    /\ UNCHANGED <<now, leads, messages, events, explainers, reply, pass, probe, scan, runs>>

NextCampaigns ==
    \/ StartCampaign
    \/ NextColdLead
    \/ QualifyAndStrategize
    \/ ExecuteOutreachStrategy
    \/ FinishCampaign
    \/ CampaignReturns

SpecCampaigns == InitCampaign /\ [][NextCampaigns]_vars

----------------------------------------------------------------------------
(* SpecStrategy: the decision of the outreach strategist on inputs of a    *)
(* bounded grid.                                                           *)

DaysGrid == {0, 13, 14, 20, 30, 31, 40, 45, 46, 60, 999}
OfferTables ==
    LET implant == Offer("implant_offer", "implants", TRUE)
        whitening == Offer("whitening_offer", "whitening", TRUE)
        expired == Offer("expired_implant_offer", "implants", FALSE)
    IN  {<<>>, <<whitening>>, <<whitening, implant>>, <<expired>>, <<expired, whitening>>}
TestimonialTables ==
    LET implant == Testimonial("implants", "implant_story")
        whitening == Testimonial("whitening", "whitening_story")
        general == Testimonial("General", "general_story")
    IN  {<<>>, <<general>>, <<whitening>>, <<whitening, implant>>, <<general, implant>>}

InitStrategy ==
    /\ now = 0
    /\ leads = <<>>
    /\ messages = <<>>
    /\ events = EmptyBag
    /\ explainers = <<>>
    /\ reply = IdleReply
    /\ pass = IdlePass
    /\ campaign = IdleCampaign
    /\ scan = IdleScan
    /\ runs = NoRuns
    /\ probe \in [days_cold : DaysGrid, service_keywords : {<<>>, <<"implants">>},
                  offers : OfferTables, testimonials : TestimonialTables,
                  answer : StrategistAnswers, decision : {NoDecision}, decided : {FALSE}]

\* decision = _ai_qualify_and_strategize_lead(lead) under the model's answer
Strategize ==
    /\ ~probe.decided
    /\ probe' = [probe EXCEPT
                    !.decision = ai_qualify_and_strategize_lead(
                                     probe.days_cold,
                                     RelevantOffers(probe.service_keywords, probe.offers),
                                     RelevantTestimonials(probe.service_keywords,
                                                          probe.testimonials),
                                     probe.answer),
                    !.decided = TRUE]
    /\ UNCHANGED <<now, leads, messages, events, explainers, reply, pass, campaign, scan, runs>>

SpecStrategy == InitStrategy /\ [][Strategize]_vars

----------------------------------------------------------------------------
(* SpecDecision: the decision steps of the outreach strategist and of the  *)
(* opportunity scan as pure functions, each on inputs of a bounded grid.   *)

CreationDaysGrid == {0, 1, 2, 3, 4, 10}

\* days_since_contact: the whole days since last_contact_at, NoTime for a lead
\* without a contact (the scan's decision does not read it; kept for the
\* contracts)

InitOpportunity ==
    /\ now = 0
    /\ leads = <<>>
    /\ messages = <<>>
    /\ events = EmptyBag
    /\ explainers = <<>>
    /\ reply = IdleReply
    /\ pass = IdlePass
    /\ campaign = IdleCampaign
    /\ scan = IdleScan
    /\ runs = NoRuns
    /\ probe \in [status : {"new", "active", "at_risk", "cold"}, risk_level : LeadRiskLevel,
                  days_since_creation : CreationDaysGrid,
                  days_since_contact : {NoTime, 0, 5},
                  service_keywords : {<<>>, <<"implants">>},
                  offers : {<<>>, <<Offer("whitening_offer", "whitening", TRUE),
                                    Offer("implant_offer", "implants", TRUE)>>},
                  answer : OpportunityAnswers, assessment : {NoAssessmentYet},
                  analyzed : {FALSE}]

\* the row of a probe of the scan
ProbeRow == [NewLead EXCEPT !.status = probe.status, !.risk_level = probe.risk_level]

\* opportunity_assessment = _ai_analyze_lead_opportunity(lead) under the
\* model's answer
AnalyzeProbe ==
    /\ "analyzed" \in DOMAIN probe
    /\ ~probe.analyzed
    /\ probe' = [probe EXCEPT
                    !.assessment = ai_analyze_lead_opportunity(
                                       ProbeRow, probe.days_since_creation,
                                       RelevantOffers(probe.service_keywords, probe.offers),
                                       probe.answer),
                    !.analyzed = TRUE]
    /\ UNCHANGED <<now, leads, messages, events, explainers, reply, pass, campaign, scan, runs>>

StrategizeProbe ==
    /\ "decided" \in DOMAIN probe
    /\ Strategize

SpecDecision == (InitStrategy \/ InitOpportunity) /\ [][StrategizeProbe \/ AnalyzeProbe]_vars

----------------------------------------------------------------------------
(* SpecScan: scan_all_leads_for_opportunities alone, over leads of every   *)
(* status the selection tells apart, at times up to MaxTicks * TickHours;  *)
(* the offers table is empty.                                              *)

ScanSeedLeads ==
    {[NewLead EXCEPT !.status = status, !.risk_level = risk_level] :
        status \in {"new", "active", "at_risk"}, risk_level \in LeadRiskLevel}
    \cup {[NewLead EXCEPT !.status = "cold"], [NewLead EXCEPT !.do_not_contact = TRUE]}

InitScan ==
    /\ now = 0
    /\ leads \in [LeadIds -> ScanSeedLeads]
    /\ messages = [l \in LeadIds |-> <<>>]
    /\ events = EmptyBag
    /\ explainers = <<>>
    /\ reply = IdleReply
    /\ pass = IdlePass
    /\ probe = NoProbe
    /\ campaign = IdleCampaign
    /\ scan = IdleScan
    /\ runs = NoRuns

ScansRun == CopiesIn(EventRow("ai_lead_scanning", NoLead, "info"), events) \div 2

ScanAllLeadsForOpportunities ==
    /\ ScansRun < MaxScans
    /\ StartScan

AnalyzeLeadOpportunity == \E answer \in OpportunityAnswers : AnalyzeOpportunity(answer)

SendProactiveEngagement ==
    \E answer \in ModelAnswers : ProactiveEngagement(answer[1], answer[2])

NextScan ==
    \/ ScanAllLeadsForOpportunities
    \/ NextScanLead
    \/ AnalyzeLeadOpportunity
    \/ SendProactiveEngagement
    \/ FinishScan
    \/ ClockBetweenRuns

SpecScan == InitScan /\ [][NextScan]_vars

----------------------------------------------------------------------------
(* SpecPassLive: the risk pass under the scheduling of the event loop.  A  *)
(* coroutine that can run is run, so the steps of the pass that wait for   *)
(* nothing are taken (weak fairness).  The return of                       *)
(* await self.llm.ainvoke(...) is the language model's to give: ChatOpenAI *)
(* is built with api_key, model and temperature only and no caller wraps   *)
(* the await in a timeout, so nothing makes the answering steps happen.    *)

PassSteps ==
    \/ NextLead
    \/ AssessLead
    \/ ColdCheck
    \/ TurnRaises
    \/ FinishPass

InitPassLive ==
    /\ now = 0
    /\ leads \in [LeadIds -> {[NewLead EXCEPT !.status = status] :
                                 status \in {"active", "at_risk"}}]
    /\ messages \in [LeadIds -> {SeedHistory(sentiments) : sentiments \in {<<>>, <<-50>>}}]
    /\ events = EmptyBag
    /\ explainers = <<>>
    /\ reply = IdleReply
    /\ pass = IdlePass
    /\ probe = NoProbe
    /\ campaign = IdleCampaign
    /\ scan = IdleScan
    /\ runs = NoRuns

SpecPassLive == InitPassLive /\ [][NextPass]_vars /\ WF_vars(PassSteps)

----------------------------------------------------------------------------
(* SpecDemotion: the scheduler runs analyze_all_active_leads once every     *)
(* period over AT_RISK leads that send no message; every call of the        *)
(* language model is answered and no statement raises.  A pass that is due  *)
(* runs and a running pass goes on (weak fairness).                         *)

PassPeriodHours == 12    \* the interval of the risk-analysis job, in hours
DemotionHorizon == 360   \* the hours the periodic passes are followed for

\* the passes the scheduler has started by now, the first one at hour 0
PassesDue == (now \div PassPeriodHours) + 1

InitDemotion ==
    /\ now = 0
    /\ leads \in [LeadIds -> {[NewLead EXCEPT !.status = "at_risk", !.risk_level = risk_level,
                                              !.last_contact_at = last_contact_at] :
                                 risk_level \in LeadRiskLevel, last_contact_at \in {NoTime, 0}}]
    /\ messages \in [LeadIds -> {SeedHistory(sentiments) :
                                    sentiments \in {<<>>, <<-50>>, <<40, 40, 40>>}}]
    /\ events = EmptyBag
    /\ explainers = <<>>
    /\ reply = IdleReply
    /\ pass = IdlePass
    /\ probe = NoProbe
    /\ campaign = IdleCampaign
    /\ scan = IdleScan
    /\ runs = NoRuns

\* the interval trigger fires: the pass of this period starts
PeriodicPass ==
    /\ PassesRun < PassesDue
    /\ StartPass

\* the pass of this period has returned: the next period begins
PeriodElapses ==
    /\ pass.pc = "idle"
    /\ PassesRun = PassesDue
    /\ now < DemotionHorizon
    /\ now' = now + PassPeriodHours
    /\ UNCHANGED <<leads, messages, events, explainers, reply, pass, probe, campaign, scan, runs>>

RetentionOfferAnswered == \E sentiment \in AiSentiments : RetentionOffer(TRUE, sentiment)

InterventionAnswered == \E sentiment \in AiSentiments : PredictiveIntervention(TRUE, sentiment)

NextDemotion ==
    \/ PeriodicPass
    \/ NextLead
    \/ AssessLead
    \/ RetentionOfferAnswered
    \/ InterventionAnswered
    \/ ColdCheck
    \/ FinishPass
    \/ PeriodElapses

SpecDemotion == InitDemotion /\ [][NextDemotion]_vars /\ WF_vars(NextDemotion)

----------------------------------------------------------------------------
(* SpecBatches: one run of one of the three batch operations, with a       *)
(* language model whose every call returns or fails.  A coroutine that can *)
(* run is run and every awaited call ends, so a step of the running batch  *)
(* that is enabled is taken (weak fairness on the steps).                  *)

InitBatches ==
    /\ now = 0
    /\ leads \in [LeadIds -> {[NewLead EXCEPT !.status = status] :
                                 status \in {"new", "at_risk", "cold"}}]
    /\ messages \in [LeadIds -> {SeedHistory(sentiments) : sentiments \in {<<>>, <<-50>>}}]
    /\ events = EmptyBag
    /\ explainers = <<>>
    /\ reply = IdleReply
    /\ pass = IdlePass
    /\ probe = NoProbe
    /\ campaign = IdleCampaign
    /\ scan = IdleScan
    /\ runs = NoRuns

\* no batch has run and none is running
NothingRan ==
    /\ pass.pc = "idle"
    /\ scan.pc = "idle"
    /\ campaign.pc = "idle"
    /\ events = EmptyBag

PassStartsAlone ==
    /\ NothingRan
    /\ StartPass

ScanStartsAlone ==
    /\ NothingRan
    /\ StartScan

CampaignStartsAlone ==
    /\ NothingRan
    /\ StartCampaign

\* the steps of a running batch
BatchSteps ==
    \/ NextLead
    \/ AssessLead
    \/ SendRetentionOffer
    \/ SendPredictiveIntervention
    \/ ColdCheck
    \/ TurnRaises
    \/ FinishPass
    \/ NextScanLead
    \/ AnalyzeLeadOpportunity
    \/ SendProactiveEngagement
    \/ FinishScan
    \/ NextColdLead
    \/ QualifyAndStrategize
    \/ ExecuteOutreachStrategy
    \/ FinishCampaign

NextBatches ==
    \/ PassStartsAlone
    \/ ScanStartsAlone
    \/ CampaignStartsAlone
    \/ BatchSteps

SpecBatches == InitBatches /\ [][NextBatches]_vars /\ WF_vars(BatchSteps)

----------------------------------------------------------------------------
(* SpecGap: the response gap of assess_lead_risk as a pure function of the *)
(* time elapsed since the newest message, counted here in minutes.         *)

MinutesPerHour == 60

\* int(x): the fraction is dropped, towards zero
int(minutes) ==
    IF minutes >= 0 THEN minutes \div MinutesPerHour
    ELSE 0 - ((0 - minutes) \div MinutesPerHour)

\* hours_since_last_contact = _safe_datetime_diff(now, created_at) / 3600 and
\* response_gap_hours=int(hours_since_last_contact)
response_gap_hours(elapsed_minutes) == int(elapsed_minutes)

ElapsedGrid ==
    {0, 30, 1439, 1440, 1441, 1470, 1499, 1500, 1530, 4319, 4320, 4321, 4350, 4379, 4380, 4410}

InitGap ==
    /\ now = 0
    /\ leads = <<>>
    /\ messages = <<>>
    /\ events = EmptyBag
    /\ explainers = <<>>
    /\ reply = IdleReply
    /\ pass = IdlePass
    /\ campaign = IdleCampaign
    /\ scan = IdleScan
    /\ runs = NoRuns
    /\ probe \in [elapsed_minutes : ElapsedGrid, sentiment : {-40, -10, 20}, count : {2, 3},
                  response_gap_hours : {0}, risk_factors : {0}, risk_level : {"unset"},
                  scored : {FALSE}]

\* the end of assess_lead_risk: the gap in hours and the risk level
ScoreGap ==
    /\ ~probe.scored
    /\ LET gap == response_gap_hours(probe.elapsed_minutes)
       IN  probe' = [probe EXCEPT
                        !.response_gap_hours = gap,
                        !.risk_factors = RiskFactors(Hundredths(probe.sentiment), gap, probe.count),
                        !.risk_level = determine_lead_risk_level(Hundredths(probe.sentiment),
                                                                 gap, probe.count),
                        !.scored = TRUE]
    /\ UNCHANGED <<now, leads, messages, events, explainers, reply, pass, campaign, scan, runs>>

SpecGap == InitGap /\ [][ScoreGap]_vars

----------------------------------------------------------------------------
(* SpecRuns: the scheduler and the trigger endpoints start runs of the     *)
(* batch jobs, and runs return.                                            *)

InitRuns ==
    /\ now = 0
    /\ leads = [l \in LeadIds |-> NewLead]
    /\ messages = [l \in LeadIds |-> <<>>]
    /\ events = EmptyBag
    /\ explainers = <<>>
    /\ reply = IdleReply
    /\ pass = IdlePass
    /\ probe = NoProbe
    /\ campaign = IdleCampaign
    /\ scan = IdleScan
    /\ runs = NoRuns

IntervalTrigger == \E job \in SchedulerJobs : SchedulerFires(job)

PostTrigger == \E endpoint \in TriggerEndpoints : TriggerRequest(endpoint)

CoroutineReturns == \E starter \in DOMAIN runs : RunReturns(starter)

NextRuns ==
    \/ IntervalTrigger
    \/ PostTrigger
    \/ CoroutineReturns

SpecRuns == InitRuns /\ [][NextRuns]_vars

----------------------------------------------------------------------------
(* SpecJobs: a risk pass and an opportunity scan on one event loop, each   *)
(* with its own database session (run_risk_analysis and                    *)
(* run_ai_lead_scanning open one each).  A run gives way only where it     *)
(* awaits the language model, so a run steps only while the other one is   *)
(* idle or awaiting.                                                       *)

JobSeedLeads ==
    {[NewLead EXCEPT !.status = status] : status \in {"new", "active", "at_risk"}}

InitJobs ==
    /\ now = 0
    /\ leads \in [LeadIds -> JobSeedLeads]
    /\ messages \in [LeadIds -> {SeedHistory(sentiments) : sentiments \in {<<>>, <<-50>>}}]
    /\ events = EmptyBag
    /\ explainers = <<>>
    /\ reply = IdleReply
    /\ pass = IdlePass
    /\ probe = NoProbe
    /\ campaign = IdleCampaign
    /\ scan = IdleScan
    /\ runs = NoRuns

\* the run is not running: it has not started, has returned, or awaits the model
PassYields == pass.pc \in {"idle", "retention", "intervention"}
ScanYields == scan.pc \in {"idle", "analyze", "engage"}

PassRuns ==
    /\ ScanYields
    /\ \/ AnalyzeAllActiveLeads
       \/ NextLead
       \/ AssessLead
       \/ SendRetentionOffer
       \/ SendPredictiveIntervention
       \/ ColdCheck
       \/ FinishPass

ScanRuns ==
    /\ PassYields
    /\ \/ ScanAllLeadsForOpportunities
       \/ NextScanLead
       \/ AnalyzeLeadOpportunity
       \/ SendProactiveEngagement
       \/ FinishScan

NextJobs ==
    \/ PassRuns
    \/ ScanRuns

SpecJobs == InitJobs /\ [][NextJobs]_vars

----------------------------------------------------------------------------
(* SpecExplainer: financial explainers are created, by both entry points,  *)
(* and opened through the access endpoint, the clock moving in between.    *)
(* probe holds the payment_plan_options setting of the process.            *)

PlanConfigs == {DefaultPlanMonths, <<0, 6>>, <<3>>}
CostArguments == {None, Some(0), Some(9999), Some(300000)}
CoverageArguments == {None, Some(0), Some(50), Some(150)}
ConversationTexts ==
    {{}} \cup {{service} : service \in DOMAIN cost_estimates}
         \cup {{"invisalign", "braces"}, {"implants", "crown"}, {"cleaning", "braces"}}

InitExplainer ==
    /\ now = 0
    /\ leads = [l \in LeadIds |-> NewLead]
    /\ messages = [l \in LeadIds |-> <<>>]
    /\ events = EmptyBag
    /\ explainers = <<>>
    /\ reply = IdleReply
    /\ pass = IdlePass
    /\ probe \in [payment_plan_options : PlanConfigs]
    /\ campaign = IdleCampaign
    /\ scan = IdleScan
    /\ runs = NoRuns

CreateFinancialExplainer ==
    /\ Len(explainers) < MaxExplainers
    /\ EventsRoom(1)
    /\ \E l \in LeadIds, estimated_cost \in CostArguments,
          insurance_coverage_percent \in CoverageArguments :
           create_financial_explainer(l, "Dental Treatment", estimated_cost,
                                      insurance_coverage_percent,
                                      probe.payment_plan_options,
                                      [intelligent |-> FALSE])
    /\ UNCHANGED <<now, leads, messages, reply, pass, probe, campaign, scan, runs>>

CreateIntelligentFinancialExplainer ==
    /\ Len(explainers) < MaxExplainers
    /\ EventsRoom(1)
    /\ \E l \in LeadIds, text \in ConversationTexts :
           create_intelligent_financial_explainer(l, text, probe.payment_plan_options)
    /\ UNCHANGED <<now, leads, messages, reply, pass, probe, campaign, scan, runs>>

\* GET /financial-explainer/{secure_token}: an unknown token is answered 404
AccessFinancialExplainer ==
    /\ EventsRoom(1)
    /\ \E token \in DOMAIN explainers : mark_explainer_accessed(token)
    /\ UNCHANGED <<now, leads, messages, reply, pass, probe, campaign, scan, runs>>

NextExplainer ==
    \/ CreateFinancialExplainer
    \/ CreateIntelligentFinancialExplainer
    \/ AccessFinancialExplainer
    \/ ClockBetweenRuns

SpecExplainer == InitExplainer /\ [][NextExplainer]_vars

----------------------------------------------------------------------------
(* SpecAccess: requests to GET /financial-explainer/{token} in flight       *)
(* together.  The server accepts a request and opens its session (get_db),  *)
(* then the event loop runs the handler, which is a coroutine that awaits   *)
(* nothing that suspends: the query, mark_explainer_accessed with its       *)
(* commits and the answer are one stretch.  probe.accesses holds the        *)
(* requests; seen is the row as it was when the request was accepted.       *)

AccessIds == 1..MaxAccesses

NoRow == [access_count |-> 0, is_accessed |-> FALSE]

IdleAccess == [pc |-> "idle", token |-> 0, seen |-> NoRow]

InitAccess ==
    /\ now = 0
    /\ leads = [l \in LeadIds |-> NewLead]
    /\ messages = [l \in LeadIds |-> <<>>]
    /\ events = EmptyBag
    /\ explainers = <<>>
    /\ reply = IdleReply
    /\ pass = IdlePass
    /\ probe = [payment_plan_options |-> DefaultPlanMonths,
                accesses |-> [r \in AccessIds |-> IdleAccess]]
    /\ campaign = IdleCampaign
    /\ scan = IdleScan
    /\ runs = NoRuns

CreateExplainer ==
    /\ Len(explainers) < MaxExplainers
    /\ \E l \in LeadIds :
           create_financial_explainer(l, "Dental Treatment", None, None,
                                      probe.payment_plan_options, [intelligent |-> FALSE])
    /\ UNCHANGED <<now, leads, messages, reply, pass, probe, campaign, scan, runs>>

\* a request for a token arrives and is given its session
AcceptAccess(r, token) ==
    /\ probe.accesses[r].pc = "idle"
    /\ token \in DOMAIN explainers
    /\ probe' = [probe EXCEPT !.accesses[r] =
                    [pc |-> "accepted", token |-> token,
                     seen |-> [access_count |-> explainers[token].access_count,
                               is_accessed |-> explainers[token].is_accessed]]]
    /\ UNCHANGED <<now, leads, messages, events, explainers, reply, pass, campaign, scan, runs>>

\* access_financial_explainer: get_financial_explainer_by_token loads the
\* row, mark_explainer_accessed updates and commits it and logs the event
HandleAccess_StaleRow(r) ==
    /\ probe.accesses[r].pc = "accepted"
    /\ LET token == probe.accesses[r].token
           seen == probe.accesses[r].seen
       IN  /\ explainers' = [explainers EXCEPT ![token] =
                   [@ EXCEPT !.is_accessed = TRUE,
                             !.first_accessed_at = IF seen.is_accessed THEN @ ELSE now,
                             !.access_count = seen.access_count + 1,
                             !.last_accessed_at = now]]
           /\ events' = log_event(events, "financial_explainer_accessed",
                                  explainers[token].lead_id, "info")
    /\ probe' = [probe EXCEPT !.accesses[r].pc = "answered"]
    /\ UNCHANGED <<now, leads, messages, reply, pass, campaign, scan, runs>>

HandleAccess(r) ==
    /\ probe.accesses[r].pc = "accepted"
    /\ mark_explainer_accessed(probe.accesses[r].token)
    /\ probe' = [probe EXCEPT !.accesses[r].pc = "answered"]
    /\ UNCHANGED <<now, leads, messages, reply, pass, campaign, scan, runs>>

\* the answer has been sent
AccessAnswered(r) ==
    /\ probe.accesses[r].pc = "answered"
    /\ probe' = [probe EXCEPT !.accesses[r] = IdleAccess]
    /\ UNCHANGED <<now, leads, messages, events, explainers, reply, pass, campaign, scan, runs>>

AccessArrives ==
    /\ BagCardinality(events) + Cardinality({r \in AccessIds : probe.accesses[r].pc = "accepted"})
           < MaxEvents
    /\ \E r \in AccessIds, token \in DOMAIN explainers : AcceptAccess(r, token)

AccessHandled == \E r \in AccessIds : HandleAccess(r)

AccessReturns == \E r \in AccessIds : AccessAnswered(r)

NextAccess ==
    \/ CreateExplainer
    \/ AccessArrives
    \/ AccessHandled
    \/ AccessReturns
    \/ ClockBetweenRuns

SpecAccess == InitAccess /\ [][NextAccess]_vars

----------------------------------------------------------------------------
(* SpecScore: the scoring functions applied to inputs of a bounded grid.   *)

SentGrid == {-100, -40, -31, -30, -29, -10, -1, 0, 20}
GapGrid == {0, 10, 24, 25, 30, 72, 73, 80}
CountGrid == {0, 2, 3, 5, 10}
SampleSentiments == {-50, -10, 40}

Unset == "unset"

ProbeMessages == [sentiment : SampleSentiments]

Histories == UNION {[1..n -> ProbeMessages] : n \in 1..MaxHistory}


InitScore ==
    /\ now = 0
    /\ leads = <<>>
    /\ messages = <<>>
    /\ events = EmptyBag
    /\ explainers = <<>>
    /\ reply = IdleReply
    /\ pass = IdlePass
    /\ campaign = IdleCampaign
    /\ scan = IdleScan
    /\ runs = NoRuns
    /\ probe \in [sentiment : SentGrid, gap : GapGrid, count : CountGrid,
                  history : Histories,
                  risk_level : {Unset},
                  sample : {<<>>}, weights : {<<>>}, weighted : {0},
                  weighed : {FALSE}]

\* risk_level = determine_lead_risk_level(sentiment_score, response_gap_hours, message_count)
ScoreRisk ==
    /\ probe.risk_level = Unset
    /\ probe' = [probe EXCEPT !.risk_level =
                    determine_lead_risk_level(Hundredths(probe.sentiment), probe.gap, probe.count)]
    /\ UNCHANGED <<now, leads, messages, events, explainers, reply, pass, campaign, scan, runs>>

\* the sentiment part of assess_lead_risk on one conversation
ScoreSentiment ==
    /\ ~probe.weighed
    /\ LET recent_messages == RecentMessages(probe.history, SampleLimit)
       IN  probe' = [probe EXCEPT !.sample = recent_messages,
                                  !.weights = SampleWeights(SentimentScores(recent_messages)),
                                  !.weighted = WeightedSentiment(SentimentScores(recent_messages)),
                                  !.weighed = TRUE]
    /\ UNCHANGED <<now, leads, messages, events, explainers, reply, pass, campaign, scan, runs>>

NextScore == ScoreRisk \/ ScoreSentiment

SpecScore == InitScore /\ [][NextScore]_vars

----------------------------------------------------------------------------
(* Claims on the risk pass and the lead API (Spec) *)

OutreachIntents ==
    {"aggressive_retention", "predictive_intervention", "proactive_outreach",
     "proactive_engagement"}

\* this step persists an outreach message for lead l
OutreachPersisted(l) ==
    /\ Len(messages'[l]) > Len(messages[l])
    /\ messages'[l][Len(messages'[l])].sender = "ai"
    /\ messages'[l][Len(messages'[l])].intent_classification \in OutreachIntents

\* C1: no step persists a retention, intervention, outreach or
\* proactive-engagement message for a lead whose do_not_contact flag is true
\* in the table, also when the flag became true after the pass had selected
\* its list.
C1_NoOutreachToDoNotContact ==
    [][\A l \in DOMAIN leads : leads[l].do_not_contact => ~OutreachPersisted(l)]_vars

\* C2: a do_not_contact flag that is true stays true under every step of the
\* engine and of the lead API.
C2_DoNotContactIsPermanent ==
    [][\A l \in DOMAIN leads : leads[l].do_not_contact => leads'[l].do_not_contact]_vars

\* the number of risk_level_change events logged for lead l
RiskChangeEvents(ev, l) ==
    CopiesIn(EventRow("risk_level_change", l, "info"), ev)
        + CopiesIn(EventRow("risk_level_change", l, "warning"), ev)

\* C10: in a lead's turn of analyze_all_active_leads, when the computed risk
\* level differs from the stored one, the stored level becomes the computed
\* one and exactly one risk_level_change event is logged for the lead, with
\* severity warning iff the new level is high and info otherwise, and a lead
\* whose new level is high has status AT_RISK in the pass's session after the
\* update; when the two levels are equal, no risk_level_change event is
\* logged; no other step of the pass or of the API logs such an event.
C10_RiskLevelChange ==
    [][IF pass.pc = "assess"
       THEN LET l == pass.lead
                computed == assess_lead_risk(l).risk_level
                stated == IF computed = "high" THEN "warning" ELSE "info"
            IN  IF computed # leads[l].risk_level
                THEN /\ leads'[l].risk_level = computed
                     /\ RiskChangeEvents(events', l) = RiskChangeEvents(events, l) + 1
                     /\ CopiesIn(EventRow("risk_level_change", l, stated), events')
                            = CopiesIn(EventRow("risk_level_change", l, stated), events) + 1
                     /\ computed = "high" =>
                            Overlay(leads'[l], pass'.dirty).status = "at_risk"
                ELSE /\ RiskChangeEvents(events', l) = RiskChangeEvents(events, l)
                     /\ leads'[l].risk_level = leads[l].risk_level
       ELSE \A l \in DOMAIN leads :
                RiskChangeEvents(events', l) = RiskChangeEvents(events, l)]_vars

C10_Witness ==
    /\ pass.pc = "retention"
    /\ pass.dirty.status = {"at_risk"}
    /\ leads[pass.lead].risk_level = "high"
    /\ leads[pass.lead].status = "active"
    /\ CopiesIn(EventRow("risk_level_change", pass.lead, "warning"), events) = 1

----------------------------------------------------------------------------
(* Claims on the risk pass alone (SpecPass) *)

\* the error events of one type logged for lead l
ErrorEvents(ev, error_type, l) == CopiesIn(EventRow("error_" \o error_type, l, "error"), ev)

\* this step is the end of a lead's turn that has not raised
TurnEnds == pass.pc = "cold" /\ pass'.pc = "next" /\ pass'.raised = pass.raised

\* the demotion rule as the specification states it, on the hours since the
\* last contact
StatedCold(risk_level, hours) ==
    (risk_level = "high" /\ hours > 168) \/ hours > 336

\* this step moves lead l to COLD
MovedToCold(l) == leads[l].status # "cold" /\ leads'[l].status = "cold"

\* C12: at the end of a lead's turn, a lead in status AT_RISK is moved to COLD
\* iff its risk level is high and more than 168 hours have passed since its
\* last contact, or more than 336 hours have passed whatever its risk level,
\* and a lead in another status is not moved; so a lead that entered its turn
\* AT_RISK with a high risk level is moved to COLD by the pass iff it had no
\* contact for more than 168 hours when the turn began (moved at 170 hours,
\* not moved at 100 hours).
C12_ColdDemotion ==
    [][TurnEnds =>
          LET l == pass.lead
              row == Overlay(leads[l], pass.dirty)
              entry == pass.entry
          IN  /\ row.status = "at_risk" /\ row.last_contact_at # NoTime =>
                    (MovedToCold(l) <=> StatedCold(row.risk_level, now - row.last_contact_at))
              /\ row.status # "at_risk" => ~MovedToCold(l)
              /\ (/\ entry.status = "at_risk"
                  /\ row.risk_level = "high"
                  /\ entry.last_contact_at # NoTime) =>
                    (MovedToCold(l) <=> now - entry.last_contact_at > 168)]_vars

\* the number of AI messages of one intent persisted for lead l (the store
\* holds none before the pass)
Sent(l, intent) ==
    Cardinality({i \in DOMAIN messages[l] :
                    /\ messages[l][i].sender = "ai"
                    /\ messages[l][i].intent_classification = intent})

\* the lead of the turn is high after assessment; it entered the turn AT_RISK
\* and is medium after assessment
HighAfterAssessment == pass.risk_assessment.risk_level = "high"
AtRiskAndMedium ==
    pass.entry.status = "at_risk" /\ pass.risk_assessment.risk_level = "medium"

\* C13 as stated: when the messages of a lead's turn are done, a lead that is
\* high after assessment has been sent one aggressive-retention and one
\* predictive-intervention message, and a lead that is AT_RISK and medium one
\* predictive-intervention message.
C13_InterventionsSent ==
    pass.pc = "cold" =>
        LET l == pass.lead
        IN  /\ HighAfterAssessment =>
                  /\ Sent(l, "aggressive_retention") = 1
                  /\ Sent(l, "predictive_intervention") = 1
            /\ AtRiskAndMedium => Sent(l, "predictive_intervention") = 1

\* C13, amended: when the messages of a lead's turn are done, for a lead that
\* is high after assessment each of the two messages has been sent once or,
\* when its model call failed, not sent and an error event logged for the
\* lead instead; the same holds for the predictive-intervention message of a
\* lead that is AT_RISK and medium.
C13_InterventionsSentOrFailed ==
    pass.pc = "cold" =>
        LET l == pass.lead
            retention == Sent(l, "aggressive_retention")
                             + ErrorEvents(events, "aggressive_retention", l)
            intervention == Sent(l, "predictive_intervention")
                                + ErrorEvents(events, "predictive_intervention", l)
        IN  /\ HighAfterAssessment => retention = 1 /\ intervention = 1
            /\ AtRiskAndMedium => intervention = 1

C13_Witness ==
    /\ pass.pc = "cold"
    /\ pass.lead = 2
    /\ AtRiskAndMedium
    /\ Sent(2, "predictive_intervention") = 1
    /\ Sent(1, "aggressive_retention") = 1
    /\ Sent(1, "predictive_intervention") = 1

\* the success counters of the pass
SuccessCounters(stats) ==
    <<stats.newly_at_risk, stats.interventions_triggered,
      stats.aggressive_offers_sent, stats.moved_to_cold>>

\* C14: when a lead's turn raises inside analyze_all_active_leads, the error
\* is logged with that lead's id, the loop goes on with the rest of the
\* selected list, and the success counters newly_at_risk,
\* interventions_triggered, aggressive_offers_sent and moved_to_cold are what
\* they were when the lead's turn began.
C14_FailedTurnIsExcluded ==
    [][pass'.raised # pass.raised =>
          LET l == pass.lead
          IN  /\ ErrorEvents(events', "risk_analysis", l)
                     = ErrorEvents(events, "risk_analysis", l) + 1
              /\ pass'.pc = "next"
              /\ pass'.active_leads = pass.active_leads
              /\ SuccessCounters(pass'.stats) = SuccessCounters(pass.entry.stats)]_vars

----------------------------------------------------------------------------
(* Claims on the day tiers of the two fallbacks (SpecStrategy) *)

\* the decision was made by _fallback_strategy_selection
RuleBased == probe.decided /\ probe.answer.kind # "object"

\* the decision was forced by the cooldown override, which chose the strategy
TierForced ==
    /\ probe.decided
    /\ probe.decision.reasoning = "override"
    /\ probe.answer.strategy = "absent"

\* C38: under the default configuration the cooldown override and
\* _fallback_strategy_selection assign the same strategy to every days_cold
\* of at least 14; days_cold = 30 gives gentle_nudge and days_cold = 45
\* gives social_proof in both.
C38_TiersAgree ==
    probe.days_cold >= cold_lead_cooldown_days =>
        LET rule_based == fallback_strategy_selection(probe.days_cold, probe.offers,
                                                      probe.testimonials).strategy
        IN  /\ RuleBased => probe.decision.strategy = OverrideStrategy(probe.days_cold)
            /\ TierForced => probe.decision.strategy = rule_based
            /\ (RuleBased \/ TierForced) /\ probe.days_cold = 30 =>
                   probe.decision.strategy = "gentle_nudge"
            /\ (RuleBased \/ TierForced) /\ probe.days_cold = 45 =>
                   probe.decision.strategy = "social_proof"

\* the override has chosen the strategy of a lead that is 30 days cold
C38_Witness ==
    /\ TierForced
    /\ probe.days_cold = 30
    /\ probe.decision.strategy = "gentle_nudge"

----------------------------------------------------------------------------
(* Claims on repeated outreach campaigns (SpecCampaigns) *)

\* the outreach messages a lead has been sent
OutreachMessages(l) ==
    Cardinality({i \in 1..Len(messages[l]) :
                    messages[l][i].intent_classification = "proactive_outreach"})

\* C37: over sequential runs of the outreach campaign with nothing in
\* between each lead receives at most one outreach message: a lead that a
\* run has sent a message has status CONTACTED when the run returns and is
\* selected by no later run.
C37_OneOutreachPerLead ==
    /\ \A l \in DOMAIN leads : OutreachMessages(l) <= 1
    /\ campaign.pc = "returned" =>
           \A l \in DOMAIN leads : OutreachMessages(l) >= 1 => leads[l].status = "contacted"

----------------------------------------------------------------------------
(* Claims on the status edges of the engine (SpecJobs) *)

ReplyEdges == {<<"new", "active">>} \cup {<<status, "human_handoff">> : status \in LeadStatus}
PassEdges == {<<"active", "at_risk">>, <<"at_risk", "cold">>}
CampaignEdges == {<<"cold", "contacted">>}
ScanEdges == {<<status, "human_handoff">> : status \in {"new", "active", "at_risk"}}

\* the edges the engine operation that takes this step may move a status
\* along; a step of a request of the lead API is no engine operation
EngineStep == pass' # pass \/ scan' # scan \/ campaign' # campaign \/ reply' # reply

EdgesOfStep ==
    IF pass' # pass THEN PassEdges
    ELSE IF scan' # scan THEN ScanEdges
    ELSE IF campaign' # campaign THEN CampaignEdges
    ELSE ReplyEdges

\* C36: an engine operation changes a lead's status only along NEW to ACTIVE
\* and any status to HUMAN_HANDOFF (instant reply), ACTIVE to AT_RISK and
\* AT_RISK to COLD (risk pass), COLD to CONTACTED (campaign), NEW, ACTIVE or
\* AT_RISK to HUMAN_HANDOFF (scan); none returns an AT_RISK lead to ACTIVE or
\* moves a lead out of CONTACTED, CONVERTED or DO_NOT_CONTACT.
C36_StatusEdges ==
    [][EngineStep =>
           \A l \in DOMAIN leads \cap DOMAIN leads' :
               leads'[l].status # leads[l].status =>
                   <<leads[l].status, leads'[l].status>> \in EdgesOfStep]_vars

----------------------------------------------------------------------------
(* Claims on the demotion of silent leads (SpecDemotion) *)

\* the pass of the last period has returned
HorizonReached ==
    /\ now >= DemotionHorizon
    /\ pass.pc = "idle"
    /\ PassesRun = PassesDue

\* C35: under periodic risk passes with a working language model an AT_RISK
\* lead that sends no further message is eventually moved to COLD; the
\* messages the pass sends do not postpone the demotion for ever.  Every
\* lead here is AT_RISK at hour 0 and silent, and the passes are followed
\* beyond the 14 days after which _should_move_to_cold demotes any lead.
C35_SilentLeadGoesCold ==
    HorizonReached => \A l \in DOMAIN leads : leads[l].status = "cold"

----------------------------------------------------------------------------
(* Claims on the frame of the risk pass (SpecFrame) *)

ListedLeads(list) == {list[i] : i \in 1..Len(list)}

\* the leads a query for ACTIVE or AT_RISK leads that may be contacted selects
Selectable ==
    {l \in DOMAIN leads : leads[l].status \in {"active", "at_risk"} /\ ~leads[l].do_not_contact}

\* C34: analyze_all_active_leads handles only the leads that are ACTIVE or
\* AT_RISK and not do_not_contact when the pass selects its list; the status,
\* risk_level, sentiment_score, last_contact_at and messages of every other
\* lead are unchanged by the pass.
C34_PassFrame ==
    [][/\ (pass.pc = "idle" /\ pass'.pc # "idle") =>
              ListedLeads(pass'.active_leads) = Selectable
       /\ pass.pc # "idle" =>
              ListedLeads(pass'.active_leads) \subseteq ListedLeads(pass.active_leads)
       /\ (pass'.lead # pass.lead /\ pass'.lead # NoLead) =>
              pass'.lead \in ListedLeads(pass.active_leads)
       /\ \A l \in DOMAIN leads :
              (leads'[l] # leads[l] \/ messages'[l] # messages[l]) => l = pass.lead]_vars

\* a pass over one of two leads has returned after it sent that lead a
\* retention offer, the other lead being outside the selection
C34_Witness ==
    /\ pass.pc = "idle"
    /\ pass.stats.total_analyzed = 1
    /\ pass.stats.aggressive_offers_sent = 1
    /\ \E l \in DOMAIN leads : l \notin Selectable /\ messages[l] # <<>>

----------------------------------------------------------------------------
(* Claims on the instant-reply workflow (SpecReply) *)

RoutedIntents == {"price_inquiry", "booking_request", "human_handoff", "general_question"}

\* the call in flight has returned {success: true, ...}
Succeeded == reply.pc = "returned" /\ reply.result.success

\* the newest message row of the lead of the call in flight
LastMessage == messages[reply.lead_id][Len(messages[reply.lead_id])]

\* C3: whatever text the model returns as the label, the classified intent that
\* is routed on, persisted on the AI message and returned is one of
\* price_inquiry, booking_request, human_handoff, general_question; a label
\* other than these four, however it is cased or padded (complaint_concern, or
\* a label outside the five of the specification), is resolved to
\* general_question.
C3_IntentIsRouted ==
    /\ reply.content # NoText =>
          /\ reply.classified_intent \in RoutedIntents
          /\ reply.content.label \notin RoutedIntents =>
                reply.classified_intent = "general_question"
    /\ reply.pc \in {"handle_price_inquiry", "handle_booking_or_handoff",
                     "handle_general_question"} =>
          reply.classified_intent \in RoutedIntents
    /\ Succeeded =>
          /\ reply.result.intent = reply.classified_intent
          /\ reply.result.intent \in RoutedIntents
          /\ LastMessage.sender = "ai"
          /\ LastMessage.intent_classification = reply.classified_intent

C3_Witness ==
    /\ Succeeded
    /\ reply.content.label = "complaint_concern"
    /\ LastMessage.intent_classification = "general_question"

\* the handler the specification names for an intent
StatedHandler(intent) ==
    IF intent = "price_inquiry" THEN "handle_price_inquiry"
    ELSE IF intent \in {"booking_request", "human_handoff"} THEN "handle_booking_or_handoff"
    ELSE "handle_general_question"

\* C4: a successful invoke_new_message has visited get_lead_and_history,
\* classify_intent, the one handler of its classified intent, save_response, in
\* this order, and has ended; it has persisted exactly one AI message, tagged
\* with the classified intent, and has set the lead's last_contact_at.
C4_WorkflowOrder ==
    Succeeded =>
        /\ reply.visited = <<"get_lead_and_history", "classify_intent",
                             StatedHandler(reply.classified_intent), "save_response">>
        /\ AiMessages(reply.lead_id) = reply.entry.ai_messages + 1
        /\ LastMessage.sender = "ai"
        /\ LastMessage.intent_classification = reply.classified_intent
        /\ LastMessage.created_at = now
        /\ leads[reply.lead_id].last_contact_at = now

C4_Witness ==
    /\ Succeeded
    /\ reply.classified_intent = "human_handoff"
    /\ reply.visited[3] = "handle_booking_or_handoff"
    /\ reply.entry.last_contact_at # now

\* C5: invoke_new_message never raises to its caller, whatever the lead id
\* (also one that does not exist) and whatever fails inside the workflow.
C5_NeverRaises == reply.pc # "raised"

\* C6: after a successful invoke_new_message, handoff_required is true iff the
\* classified intent is booking_request or human_handoff; the lead's status is
\* HUMAN_HANDOFF if handoff_required, ACTIVE if it was NEW before the call and
\* no handoff is required, and otherwise the status before the call.
C6_HandoffAndStatus ==
    Succeeded =>
        /\ reply.result.handoff_required
              <=> reply.result.intent \in {"booking_request", "human_handoff"}
        /\ leads[reply.lead_id].status =
              IF reply.result.handoff_required THEN "human_handoff"
              ELSE IF reply.entry.status = "new" THEN "active"
              ELSE reply.entry.status

C6_Witness ==
    /\ Succeeded
    /\ ~reply.result.handoff_required
    /\ reply.entry.status = "new"
    /\ leads[reply.lead_id].status = "active"

\* C7: when a model call of invoke_new_message has failed (in the
\* classification or in the handler), the call returns {success: false,
\* error}, no AI message has been persisted for the lead, and the lead's
\* status and last_contact_at are those before the call.
C7_ModelFailureLeavesLead ==
    reply.llm_failed =>
        /\ reply.pc = "returned"
        /\ ~reply.result.success
        /\ reply.result.error
        /\ AiMessages(reply.lead_id) = reply.entry.ai_messages
        /\ leads[reply.lead_id].status = reply.entry.status
        /\ leads[reply.lead_id].last_contact_at = reply.entry.last_contact_at

C7_Witness ==
    /\ reply.llm_failed
    /\ reply.pc = "returned"
    /\ Len(reply.visited) = 3
    /\ reply.entry.status = "new"

\* the number of audit events that record a change of lead l: the rows
\* lead_status_change and risk_level_change
ChangeEvents(ev, l) ==
    CopiesIn(EventRow("lead_status_change", l, "info"), ev) + RiskChangeEvents(ev, l)

\* the number of the attributes status and risk_level of lead l that this
\* step changes in the table
Changes(l) ==
    (IF leads'[l].status # leads[l].status THEN 1 ELSE 0)
  + (IF leads'[l].risk_level # leads[l].risk_level THEN 1 ELSE 0)

\* C11: every step of invoke_new_message that changes a lead's status or
\* risk_level (NEW to ACTIVE, or to HUMAN_HANDOFF) logs exactly one audit
\* event recording the change per changed attribute, so that the number of
\* change events of a lead keeps up with the number of its changes.
C11_ChangesAreLogged ==
    [][reply' # reply =>
          \A l \in DOMAIN leads :
              ChangeEvents(events', l) = ChangeEvents(events, l) + Changes(l)]_vars

----------------------------------------------------------------------------
(* Claims on the outreach campaign (SpecCampaign) *)

\* the most recent message of lead l was sent by a human staff member
LastSenderIsHuman(l) ==
    messages[l] # <<>> /\ messages[l][Len(messages[l])].sender = "human"

\* C15: no step of run_proactive_outreach_campaign persists an outreach
\* message for a lead whose most recent message was sent by a human staff
\* member, whatever the model answers and when its call fails.
C15_NoOutreachAfterHumanMessage ==
    [][\A l \in DOMAIN leads : LastSenderIsHuman(l) => ~OutreachPersisted(l)]_vars

\* C16: no step of run_proactive_outreach_campaign persists an outreach
\* message for a lead for which fewer than cold_lead_cooldown_days days have
\* elapsed since last_contact_at, whatever the model answers and when its
\* call fails or its output does not parse.
C16_NoOutreachWithinCooldown ==
    [][\A l \in DOMAIN leads :
          (/\ leads[l].last_contact_at # NoTime
           /\ DaysCold(leads[l]) < cold_lead_cooldown_days) => ~OutreachPersisted(l)]_vars

\* the entries of campaign.log.skipped for lead l
SkipCount(c, l) == Cardinality({i \in DOMAIN c.log.skipped : c.log.skipped[i] = l})

\* C19: a step that counts a lead as contacted persists exactly one AI message
\* for it, tagged with the name of the chosen strategy, and sets its
\* last_contact_at to the time of sending; when the campaign returns, every
\* lead counted as contacted has status CONTACTED and every lead counted as
\* skipped has status COLD and the AI messages it had before the campaign.
C19_ContactedLeadIsRecorded ==
    [][/\ campaign'.stats.leads_contacted # campaign.stats.leads_contacted =>
              LET l == campaign.lead
                  last == messages'[l][Len(messages'[l])]
              IN  /\ campaign'.stats.leads_contacted = campaign.stats.leads_contacted + 1
                  /\ Len(messages'[l]) = Len(messages[l]) + 1
                  /\ last.sender = "ai"
                  /\ last.intent_classification = campaign'.decision.strategy
                  /\ leads'[l].last_contact_at = now
       /\ (campaign.pc = "finish" /\ campaign'.pc = "returned") =>
              \A l \in DOMAIN campaign.log.entry :
                  /\ l \in campaign.log.contacted => leads'[l].status = "contacted"
                  /\ SkipCount(campaign, l) > 0 =>
                        /\ leads'[l].status = "cold"
                        /\ AiMessages(l) = campaign.log.entry[l]]_vars

\* C20: when run_proactive_outreach_campaign returns, every selected lead has
\* been counted exactly once, as contacted or as skipped, and the statistics
\* satisfy leads_processed = leads_contacted + leads_skipped.
C20_EveryLeadCountedOnce ==
    campaign.pc = "returned" =>
        /\ \A l \in DOMAIN campaign.log.entry :
              (IF l \in campaign.log.contacted THEN 1 ELSE 0) + SkipCount(campaign, l) = 1
        /\ campaign.stats.leads_contacted = Cardinality(campaign.log.contacted)
        /\ campaign.stats.leads_skipped = Len(campaign.log.skipped)
        /\ campaign.stats.leads_processed
               = campaign.stats.leads_contacted + campaign.stats.leads_skipped

----------------------------------------------------------------------------
(* Claims on the executed strategy (SpecCampaign) *)

\* the strategies the strategist may name
StrategyNames == {"gentle_nudge", "social_proof", "incentive_offer", "custom"}

\* the step persists an outreach message for the lead of the turn
OutreachPersistedNow ==
    /\ campaign.lead # NoLead
    /\ campaign'.lead = campaign.lead
    /\ Len(messages'[campaign.lead]) > Len(messages[campaign.lead])

\* C33: every decision with should_contact = true that the campaign executes
\* carries a strategy in {gentle_nudge, social_proof, incentive_offer,
\* custom}; a decision forced by the cooldown override for which the model
\* gave no strategy has the strategy of its day tier; no decision with a
\* missing or unknown strategy is executed.
C33_ExecutedStrategyIsNamed ==
    [][/\ OutreachPersistedNow =>
              /\ campaign'.decision.should_contact = "true"
              /\ campaign'.decision.strategy \in StrategyNames
       /\ campaign'.decision.reasoning = "override" =>
              campaign'.decision.strategy # "absent"]_vars

----------------------------------------------------------------------------
(* Claims on the outreach strategist (SpecStrategy) *)

StatedTiers(days_cold) ==
    (IF 14 <= days_cold /\ days_cold <= 30 THEN {"gentle_nudge"} ELSE {})
    \cup (IF 30 <= days_cold /\ days_cold <= 45 THEN {"social_proof"} ELSE {})
    \cup (IF 45 <= days_cold THEN {"incentive_offer"} ELSE {})

\* the titles of the active offers valid for a service the lead asked about,
\* and the snippets of the testimonials of such a service
StatedMatchedOffers ==
    {probe.offers[i].offer_title : i \in
        {j \in DOMAIN probe.offers :
            /\ probe.offers[j].is_active
            /\ \E k \in DOMAIN probe.service_keywords :
                   probe.offers[j].valid_for_service = probe.service_keywords[k]}}

StatedMatchedTestimonials ==
    {probe.testimonials[i].snippet_text : i \in
        {j \in DOMAIN probe.testimonials :
            \E k \in DOMAIN probe.service_keywords :
                probe.testimonials[j].service_category = probe.service_keywords[k]}}

\* C18: when the strategist's model call fails or its output does not parse,
\* the decision has should_contact true and, from 14 days cold on, a strategy
\* of the stated tiers (gentle_nudge for 14 to 30 days, social_proof for 30 to
\* 45, incentive_offer for 45 and more; 20 gives gentle_nudge, 40 social_proof,
\* 60 incentive_offer), and featured_offer and featured_testimonial are a
\* matched offer and a matched testimonial whenever one exists.
C18_RuleBasedFallback ==
    (probe.decided /\ probe.answer.kind # "object") =>
        /\ probe.decision.should_contact = "true"
        /\ probe.days_cold >= 14 => probe.decision.strategy \in StatedTiers(probe.days_cold)
        /\ probe.days_cold = 20 => probe.decision.strategy = "gentle_nudge"
        /\ probe.days_cold = 40 => probe.decision.strategy = "social_proof"
        /\ probe.days_cold = 60 => probe.decision.strategy = "incentive_offer"
        /\ StatedMatchedOffers # {} => probe.decision.featured_offer \in StatedMatchedOffers
        /\ StatedMatchedTestimonials # {} =>
              probe.decision.featured_testimonial \in StatedMatchedTestimonials

C18_Witness ==
    /\ probe.decided
    /\ probe.answer.kind = "unparsable"
    /\ probe.days_cold = 40
    /\ probe.decision.strategy = "social_proof"
    /\ probe.decision.featured_offer = "implant_offer"
    /\ probe.decision.featured_testimonial = "implant_story"

----------------------------------------------------------------------------
(* Claims on the decision steps (SpecDecision) *)

StrategistProbe == "decided" \in DOMAIN probe
ScannerProbe == "analyzed" \in DOMAIN probe

\* a response that is not valid JSON or does not match the expected schema
StrategistOffSchema(answer) ==
    \/ answer.kind \in {"unparsable", "not_object"}
    \/ answer.kind = "object" /\ (answer.should_contact = "absent" \/ answer.strategy = "absent")

ScannerOffSchema(answer) ==
    \/ answer.kind \in {"unparsable", "not_object"}
    \/ /\ answer.kind = "object"
       /\ \/ answer.should_engage \in {"absent", "text"}
          \/ answer.strategy \in {"absent", "other"}

\* C21: whenever a structured response of the model is not valid JSON or does
\* not match the expected schema, the outreach strategist and the opportunity
\* scan both take the rule-based fallback decision for the lead, so that no
\* parse or schema error leaves the decision step.
C21_OffSchemaFallsBack ==
    /\ (StrategistProbe /\ probe.decided /\ StrategistOffSchema(probe.answer)) =>
           probe.decision =
               fallback_strategy_selection(
                   probe.days_cold,
                   RelevantOffers(probe.service_keywords, probe.offers),
                   RelevantTestimonials(probe.service_keywords, probe.testimonials))
    /\ (ScannerProbe /\ probe.analyzed /\ ScannerOffSchema(probe.answer)) =>
           probe.assessment =
               fallback_opportunity_analysis(
                   ProbeRow, probe.days_since_creation,
                   RelevantOffers(probe.service_keywords, probe.offers))

\* the whole days for which the lead of the probe has been untouched: since
\* its last contact, or since its creation when it has none
DaysUntouched ==
    IF probe.days_since_contact = NoTime \/ probe.days_since_contact > probe.days_since_creation
    THEN probe.days_since_creation
    ELSE probe.days_since_contact

\* the tier of the stated fallback: should_engage, strategy, urgency and action
StatedOpportunity ==
    IF probe.status = "new" /\ DaysUntouched > 1
    THEN <<"true", "proactive_outreach", "medium", "Send welcome message with relevant offer">>
    ELSE IF probe.status = "at_risk" /\ probe.risk_level = "high"
    THEN <<"true", "proactive_outreach", "high", "Send aggressive retention offer">>
    ELSE IF probe.status = "at_risk" /\ probe.risk_level = "medium"
    THEN <<"true", "proactive_outreach", "medium", "Send supportive follow-up message">>
    ELSE IF probe.status = "active" /\ DaysUntouched > 3
    THEN <<"true", "proactive_outreach", "low", "Send friendly check-in message">>
    ELSE <<"false", "none", "low", "Continue monitoring">>

\* C22: when the model call or its parse fails in the opportunity scan, the
\* assessment is, in this order: engage by proactive outreach with a welcome
\* offer for a NEW lead untouched for more than 1 day, urgent engage for an
\* AT_RISK lead of high risk, supportive engage for an AT_RISK lead of medium
\* risk, a friendly check-in for an ACTIVE lead untouched for more than 3 days,
\* and otherwise should_engage = false with strategy none.
C22_FallbackTiers ==
    (ScannerProbe /\ probe.analyzed /\ probe.answer.kind \in {"failed", "unparsable"}) =>
        /\ <<probe.assessment.should_engage, probe.assessment.strategy,
             probe.assessment.urgency_level, probe.assessment.next_best_action>>
               = StatedOpportunity
        /\ (probe.status = "new" /\ DaysUntouched > 1) =>
               probe.assessment.recommended_offer
                   \in {"Welcome consultation", "whitening_offer", "implant_offer"}

----------------------------------------------------------------------------
(* Claims on the opportunity scan (SpecScan) *)

Truthy(should_engage) == should_engage \in {"true", "text"}

ScanTouches(l) == leads'[l] # leads[l] \/ messages'[l] # messages[l]

\* the turn of scan.lead ends in this step
ScanTurnEnds == scan.pc \in {"analyze", "engage"} /\ scan'.pc = "next"

\* the scan touches only the lead of the turn, which the query selected with
\* a status of NEW, ACTIVE or AT_RISK and do_not_contact false
OnlyCandidates ==
    \A l \in LeadIds :
        ScanTouches(l) =>
            /\ l = scan.lead
            /\ l \in DOMAIN scan.loaded
            /\ scan.loaded[l].status \in {"new", "active", "at_risk"}
            /\ ~scan.loaded[l].do_not_contact

Escalates ==
    (ScanTurnEnds /\ Truthy(scan'.assessment.should_engage)
                  /\ scan'.assessment.strategy = "escalate_to_human") =>
        /\ leads'[scan.lead].status = "human_handoff"
        /\ leads'[scan.lead].reason_for_cold
               = "AI identified high-value opportunity requiring human attention"

DeclinedChangesNothing ==
    (ScanTurnEnds /\ scan'.assessment.should_engage = "false") =>
        /\ leads'[scan.lead] = leads[scan.lead]
        /\ messages'[scan.lead] = messages[scan.lead]

OutreachDecided ==
    /\ ScanTurnEnds
    /\ Truthy(scan'.assessment.should_engage)
    /\ scan'.assessment.strategy = "proactive_outreach"

EngagementSent ==
    /\ Len(messages'[scan.lead]) = Len(messages[scan.lead]) + 1
    /\ messages'[scan.lead][Len(messages'[scan.lead])].sender = "ai"
    /\ messages'[scan.lead][Len(messages'[scan.lead])].intent_classification
           = "proactive_engagement"
    /\ leads'[scan.lead].last_contact_at = now

EngagementFailed ==
    /\ leads'[scan.lead] = leads[scan.lead]
    /\ messages'[scan.lead] = messages[scan.lead]
    /\ events' = log_error(events, "proactive_engagement", scan.lead)

\* C23 as stated: scan_all_leads_for_opportunities examines and mutates only
\* leads whose status is NEW, ACTIVE or AT_RISK and whose do_not_contact is
\* false; an assessment with strategy escalate_to_human sets the lead's status
\* to HUMAN_HANDOFF and records the reason, an assessment with strategy
\* proactive_outreach persists one AI message and updates last_contact_at, and
\* an assessment with should_engage = false changes nothing on the lead.
C23_ScanMutations ==
    [][/\ OnlyCandidates
       /\ Escalates
       /\ DeclinedChangesNothing
       /\ OutreachDecided => EngagementSent]_vars

\* C23, amended: as stated, except that an assessment with strategy
\* proactive_outreach persists one AI message and updates last_contact_at, or,
\* when the message cannot be generated, logs a proactive_engagement error and
\* leaves the lead and its messages as they were.
C23_ScanMutationsOrFailure ==
    [][/\ OnlyCandidates
       /\ Escalates
       /\ DeclinedChangesNothing
       /\ OutreachDecided => (EngagementSent \/ EngagementFailed)]_vars

C23_Witness ==
    /\ scan.pc = "finish"
    /\ scan.stats.proactive_messages_sent = 1
    /\ scan.stats.leads_escalated = 1
    /\ \E l \in LeadIds : leads[l].status = "human_handoff"
    /\ \E l \in LeadIds : Len(messages[l]) = 1

----------------------------------------------------------------------------
(* Claims on the financial explainers (SpecExplainer) *)

\* C24: every financial explainer that is created has
\* out_of_pocket_cost = total_cost - estimated_insurance and
\* out_of_pocket_cost >= 0, whatever procedure, cost and coverage the two
\* creating functions were given.
C24_OutOfPocketInvariant ==
    \A token \in DOMAIN explainers :
        /\ explainers[token].out_of_pocket_cost
               = explainers[token].total_cost - explainers[token].estimated_insurance
        /\ explainers[token].out_of_pocket_cost >= 0

\* the category the text matched: the first keyword extracted from it
MatchedCategory(row) == row.computed.call.service_keywords[1]

\* C25: an explainer created by create_intelligent_financial_explainer has the
\* cost and the coverage the tables give for the category matched in the
\* text, also where the table's coverage is 0, and the configured defaults
\* only when the text matched no keyword.
C25_TablesDecide ==
    \A token \in DOMAIN explainers :
        LET row == explainers[token]
        IN  row.computed.call.intelligent =>
                IF row.computed.call.service_keywords = <<>>
                THEN /\ row.total_cost = default_procedure_cost
                     /\ row.computed.coverage_percent = default_insurance_coverage
                ELSE /\ row.total_cost = cost_estimates[MatchedCategory(row)]
                     /\ row.computed.coverage_percent = coverage_estimates[MatchedCategory(row)]
                     /\ row.computed.estimated_insurance
                            = row.total_cost * coverage_estimates[MatchedCategory(row)]

\* the step is a call of mark_explainer_accessed on the explainer of the token
Accessed(token) ==
    /\ token \in DOMAIN explainers
    /\ Len(explainers') = Len(explainers)
    /\ explainers'[token] # explainers[token]

\* the sum of access_count over the rows
RECURSIVE AccessesCounted(_)
AccessesCounted(rows) ==
    IF rows = <<>> THEN 0 ELSE Head(rows).access_count + AccessesCounted(Tail(rows))

AccessCalls ==
    LET Calls(l) == CopiesIn(EventRow("financial_explainer_accessed", l, "info"), events)
    IN  SumOver([l \in LeadIds |-> Calls(l)], LeadIds)

\* C26: on one explainer the first call of mark_explainer_accessed sets
\* is_accessed and first_accessed_at, a later call leaves both as they are,
\* every call adds exactly 1 to access_count and sets last_accessed_at, and
\* the access counts add up to the number of calls made.
C26_AccessTracking ==
    /\ [][\A token \in DOMAIN explainers :
            Accessed(token) =>
                /\ explainers'[token].is_accessed
                /\ explainers'[token].first_accessed_at
                       = IF explainers[token].is_accessed
                         THEN explainers[token].first_accessed_at ELSE now
                /\ explainers[token].is_accessed = (explainers[token].access_count > 0)
                /\ explainers'[token].access_count = explainers[token].access_count + 1
                /\ explainers'[token].last_accessed_at = now
                /\ \A other \in DOMAIN explainers :
                       other # token => explainers'[other] = explainers[other]]_vars
    /\ [](AccessesCounted(explainers) = AccessCalls)

\* an explainer opened twice, at two different hours
C26_Witness ==
    \E token \in DOMAIN explainers :
        /\ explainers[token].access_count >= 2
        /\ explainers[token].first_accessed_at < explainers[token].last_accessed_at

\* amount is the multiple of a cent nearest to points / months
NearestCent(amount, points, months) ==
    2 * Abs(amount * PointsPerCent * months - points) <= PointsPerCent * months

OfferedPlans ==
    {months \in {probe.payment_plan_options[i] : i \in DOMAIN probe.payment_plan_options} :
        months > 0}

\* the explainer of the example: 3000.00 at a coverage of 0.5, plans of 12,
\* 24 and 36 months
ExampleExplainer(row) ==
    /\ row.total_cost = 300000
    /\ row.computed.coverage_percent = 50
    /\ probe.payment_plan_options = <<12, 24, 36>>

\* C27: payment_options holds, for every configured plan of months > 0, the
\* out-of-pocket amount divided by the months and rounded to the cent; a cost
\* of 3000.00 at a coverage of 0.5 gives an insurance of 1500.00, an
\* out-of-pocket cost of 1500.00 and 125.00, 62.50 and 41.67 a month over 12,
\* 24 and 36 months.
C27_PaymentPlans ==
    \A token \in DOMAIN explainers :
        LET row == explainers[token]
        IN  /\ \A months \in OfferedPlans :
                   /\ months \in DOMAIN row.payment_options
                   /\ NearestCent(row.payment_options[months], row.computed.out_of_pocket,
                                  months)
            /\ ExampleExplainer(row) =>
                   /\ row.estimated_insurance = 150000
                   /\ row.out_of_pocket_cost = 150000
                   /\ row.payment_options = (12 :> 12500) @@ (24 :> 6250) @@ (36 :> 4167)

\* the explainer of the example was created
C27_Witness ==
    \E token \in DOMAIN explainers : ExampleExplainer(explainers[token])

----------------------------------------------------------------------------
(* Claims on the category of an intelligent explainer (SpecExplainer) *)

\* the categories the text of the call matched
MatchedCategories(row) ==
    {row.computed.call.service_keywords[i] : i \in 1..Len(row.computed.call.service_keywords)}

\* C40: in create_intelligent_financial_explainer the procedure name, the
\* base cost and the insurance coverage all come from the same service
\* category, also when the text matches several categories.
C40_OneCategory ==
    \A token \in DOMAIN explainers :
        LET row == explainers[token]
        IN  (row.computed.call.intelligent /\ row.computed.call.service_keywords # <<>>) =>
                \E service \in MatchedCategories(row) :
                    /\ row.procedure_name = ProcedureTitle[service]
                    /\ row.total_cost = cost_estimates[service]
                    /\ row.computed.coverage_percent = coverage_estimates[service]

----------------------------------------------------------------------------
(* Claims on concurrent accesses to an explainer (SpecAccess) *)

\* the accesses that have been handled to their end
CompletedAccesses == AccessCalls

\* C39: when accesses to one explainer token are handled concurrently no
\* increment is lost: the access counts are the number of completed
\* accesses; in every state is_accessed holds iff access_count is at least 1
\* iff first_accessed_at is set, and first_accessed_at is never later than
\* last_accessed_at.
C39_NoLostAccess ==
    /\ AccessesCounted(explainers) = CompletedAccesses
    /\ \A token \in DOMAIN explainers :
           LET row == explainers[token]
           IN  /\ row.is_accessed = (row.access_count >= 1)
               /\ row.is_accessed = (row.first_accessed_at # NoTime)
               /\ row.is_accessed => row.first_accessed_at <= row.last_accessed_at

\* two requests for one token were accepted before either was handled, and
\* both have been handled
C39_Witness ==
    \E r1, r2 \in AccessIds :
        /\ r1 # r2
        /\ probe.accesses[r1].pc = "answered"
        /\ probe.accesses[r2].pc = "answered"
        /\ probe.accesses[r1].token = probe.accesses[r2].token
        /\ probe.accesses[r1].seen.access_count = 0
        /\ probe.accesses[r2].seen.access_count = 0
        /\ explainers[probe.accesses[r1].token].access_count = 2

----------------------------------------------------------------------------
(* Claims on the starts of the batch jobs (SpecRuns) *)

\* C28: at no time are two runs of one batch job kind (risk analysis,
\* opportunity scan, outreach campaign) in flight together, whether the
\* scheduler or a trigger endpoint started them.
C28_OneRunPerKind ==
    \A batch \in BatchKinds : InFlight(batch) <= 1

----------------------------------------------------------------------------
(* Claims on concurrent runs (SpecJobs) *)

\* the pass is between its read and its write of its lead: it has assessed
\* the lead and awaits the model for the message it will store
PassMidTurn == pass.pc \in {"retention", "intervention"}

\* the scan is between its read and its write of its lead: the prompt has
\* read the lead's row and the scan awaits the model
ScanMidTurn == scan.pc \in {"analyze", "engage"}

\* C29: when two runs handle the same lead concurrently, each run's mutation
\* of the lead (status, risk_level, last_contact_at, the message insert)
\* takes effect as one unit: no write of one run to a lead falls between the
\* other run's read and write of that lead.
C29_PerLeadAtomic ==
    [][/\ (PassMidTurn /\ pass' = pass) =>
              (leads'[pass.lead] = leads[pass.lead]
                   /\ messages'[pass.lead] = messages[pass.lead])
       /\ (ScanMidTurn /\ scan' = scan) =>
              (leads'[scan.lead] = leads[scan.lead]
                   /\ messages'[scan.lead] = messages[scan.lead])]_vars

----------------------------------------------------------------------------
(* Claims on the progress of a batch (SpecPassLive) *)

\* C30: a model call that is slow or never returns for one lead does not
\* stall the batch beyond that lead's turn: the caller bounds the call by a
\* timeout, the batch moves on to the next lead and eventually finishes.
C30_BatchFinishes ==
    (pass.pc \in {"retention", "intervention"}) ~> (pass.pc = "idle")

----------------------------------------------------------------------------
(* Claims on the termination of the batches (SpecBatches) *)

\* the list holds lead ids in strictly ascending order, all above the lead
\* of the current turn: no lead is handled twice
StrictlyAbove(l, list) ==
    /\ \A i \in 1..Len(list) : list[i] > l
    /\ \A i, j \in 1..Len(list) : i < j => list[i] < list[j]

\* a step that begins a turn takes the first lead of the list and leaves the
\* rest; a step that ends the loop finds the list empty
TakesHead(before, after, list, list_after, first_step) ==
    /\ (before.pc = "next" /\ after.pc = first_step) =>
           (list # <<>> /\ after.lead = Head(list) /\ list_after = Tail(list))
    /\ (before.pc = "next" /\ after.pc = "finish") => list = <<>>
    /\ before.pc \notin {"idle", "next"} => list_after = list

\* C31: with a language model whose every call returns or fails, each batch
\* operation (analyze_all_active_leads, scan_all_leads_for_opportunities,
\* run_proactive_outreach_campaign) ends after handling every lead of its
\* selected list exactly once and returns its counters, whatever steps of the
\* leads' turns fail.
C31_BatchesTerminate ==
    /\ (pass.pc # "idle") ~> (pass.pc = "idle" /\ pass.active_leads = <<>>)
    /\ (scan.pc # "idle") ~> (scan.pc = "idle" /\ scan.scan_candidates = <<>>)
    /\ (campaign.pc # "idle") ~> (campaign.pc = "returned" /\ campaign.cold_leads = <<>>)
    /\ [](/\ StrictlyAbove(pass.lead, pass.active_leads)
          /\ StrictlyAbove(scan.lead, scan.scan_candidates)
          /\ StrictlyAbove(campaign.lead, campaign.cold_leads)
          /\ pass.pc = "finish" => pass.active_leads = <<>>
          /\ scan.pc = "finish" => scan.scan_candidates = <<>>
          /\ campaign.pc = "finish" => campaign.cold_leads = <<>>)
    /\ [][/\ TakesHead(pass, pass', pass.active_leads, pass'.active_leads, "assess")
          /\ TakesHead(scan, scan', scan.scan_candidates, scan'.scan_candidates, "analyze")
          /\ TakesHead(campaign, campaign', campaign.cold_leads, campaign'.cold_leads,
                       "qualify")
          /\ (pass.pc = "idle" /\ pass'.pc # "idle") =>
                 pass'.stats.total_analyzed = Len(pass'.active_leads)
          /\ (pass.pc = "finish" /\ pass'.pc = "idle") =>
                 pass'.stats = pass.stats
          /\ (scan.pc = "finish" /\ scan'.pc = "idle") =>
                 (scan'.stats = scan.stats
                      /\ scan.stats.total_scanned = Cardinality(scan.selected))
          /\ (campaign.pc = "finish" /\ campaign'.pc = "returned") =>
                 (campaign'.stats = campaign.stats
                      /\ campaign.stats.leads_processed
                             = Cardinality(DOMAIN campaign.log.entry))]_vars

\* a batch over two leads has returned after a turn of it failed
C31_Witness ==
    \/ /\ pass.pc = "idle"
       /\ pass.stats.total_analyzed = 2
       /\ pass.raised # {}
    \/ /\ scan.pc = "idle"
       /\ scan.stats.total_scanned = 2
       /\ \E l \in LeadIds : CopiesIn(EventRow("error_opportunity_scanning", l, "error"), events) > 0

----------------------------------------------------------------------------
(* Claims on the response gap (SpecGap) *)

\* what the response gap added to the score of the probe
GapContribution ==
    probe.risk_factors - RiskFactors(Hundredths(probe.sentiment), 0, probe.count)

\* C32: assess_lead_risk applies the gap thresholds to the time that has
\* actually elapsed since the newest message: a gap of more than 72 hours
\* (72.5 hours) adds 2 to the score, a gap of more than 24 hours (24.5 hours)
\* adds at least 1.
C32_GapThresholds ==
    probe.scored =>
        /\ probe.elapsed_minutes > GapHighHours * MinutesPerHour => GapContribution = 2
        /\ probe.elapsed_minutes > GapMediumHours * MinutesPerHour => GapContribution >= 1

----------------------------------------------------------------------------
(* Claims on the scoring functions (SpecScore) *)

\* the score as the specification states it, on the inputs in hundredths
StatedScore ==
    (IF probe.sentiment < -30 THEN 2 ELSE IF probe.sentiment < 0 THEN 1 ELSE 0)
  + (IF probe.gap > 72 THEN 2 ELSE IF probe.gap > 24 THEN 1 ELSE 0)
  + (IF probe.count < 3 THEN 1 ELSE 0)

ProbeIs(s, g, c) == probe.sentiment = s /\ probe.gap = g /\ probe.count = c

\* C8: determine_lead_risk_level returns high iff the stated score (2 or 1 for
\* sentiment below -0.3 or 0, 2 or 1 for a gap above 72 h or 24 h, 1 for fewer
\* than 3 messages) is at least 3, medium iff it is exactly 2 and low
\* otherwise; (-0.4, 80 h, 2) is high with score 5, (-0.1, 30 h, 5) is medium
\* with score 2 and (0.2, 10 h, 10) is low with score 0.
C8_RiskLevelByScore ==
    probe.risk_level # Unset =>
        /\ (probe.risk_level = "high") <=> (StatedScore >= 3)
        /\ (probe.risk_level = "medium") <=> (StatedScore = 2)
        /\ (probe.risk_level = "low") <=> (StatedScore < 2)
        /\ ProbeIs(-40, 80, 2) => StatedScore = 5 /\ probe.risk_level = "high"
        /\ ProbeIs(-10, 30, 5) => StatedScore = 2 /\ probe.risk_level = "medium"
        /\ ProbeIs(20, 10, 10) => StatedScore = 0 /\ probe.risk_level = "low"

C8_Witness == ProbeIs(-10, 30, 5) /\ probe.risk_level = "medium"

\* the weighted average with weight 1 on the oldest sampled message and weight
\* n on the newest, times the weight sum, in hundredths
RecencyWeightedSum(sample) ==
    LET n == Len(sample)
    IN  SumSeq([i \in 1..n |-> sample[i].sentiment * (n - i + 1)])

\* C9: in assess_lead_risk the weighted sentiment of the sampled messages gives
\* weight 1 to the oldest sampled message and weight N to the newest one
\* (probe.sample is newest first, as the query returns it).
C9_NewestWeighsMost ==
    probe.weighed =>
        LET n == Len(probe.sample)
        IN  probe.weighted * SumSeq([i \in 1..n |-> i])
                = RecencyWeightedSum(probe.sample) * SentUnit

====
